---- MODULE Spec2Model ----
(***************************************************************************)
(* Model of the METAR decoder/encoder of metar-rs.                         *)
(*                                                                         *)
(* A report is a string.  Every sub-parser of the grammar is an operator   *)
(*   P(s, p)  ->  [ok, pos, val, far]                                      *)
(* that tries to recognise its group in the text s at the 1-based          *)
(* position p: ok tells whether it matched, pos is the position after the  *)
(* match, val the decoded value and far the deepest position at which an   *)
(* alternative tried on the way gave up (0 when none did).  Alternatives   *)
(* are ordered and first-match; a repetition is greedy and never gives a   *)
(* consumed item back.                                                     *)
(***************************************************************************)
EXTENDS Integers, Sequences, FiniteSets, TLC

\* ------------------------------------------------------------------------
\* Text primitives
\* ------------------------------------------------------------------------
Max(a, b) == IF a >= b THEN a ELSE b
Min(a, b) == IF a <= b THEN a ELSE b

\* the character of s at position p, "" beyond either end
At(s, p) == IF p >= 1 /\ p <= Len(s) THEN SubSeq(s, p, p) ELSE ""

\* the n characters of s from position p on (fewer at the end of the text)
Slice(s, p, n) == IF p > Len(s) \/ n <= 0 THEN "" ELSE SubSeq(s, p, Min(p + n - 1, Len(s)))

\* the text of s from position p on
From(s, p) == Slice(s, p, Len(s))

DigitChars == {"0", "1", "2", "3", "4", "5", "6", "7", "8", "9"}
UpperChars == {"A", "B", "C", "D", "E", "F", "G", "H", "I", "J", "K", "L", "M",
               "N", "O", "P", "Q", "R", "S", "T", "U", "V", "W", "X", "Y", "Z"}

DigitVal(c) == CASE c = "0" -> 0 [] c = "1" -> 1 [] c = "2" -> 2 [] c = "3" -> 3
                 [] c = "4" -> 4 [] c = "5" -> 5 [] c = "6" -> 6 [] c = "7" -> 7
                 [] c = "8" -> 8 [] c = "9" -> 9

\* str::parse::<u32>() of a run of digits
RECURSIVE ParseNat(_)
ParseNat(d) == IF Len(d) = 0 THEN 0
               ELSE 10 * ParseNat(SubSeq(d, 1, Len(d) - 1)) + DigitVal(At(d, Len(d)))

\* format!("{:0w}", n): n in decimal, zero-padded on the left to width w
RECURSIVE PadLeft(_, _, _)
PadLeft(str, w, c) == IF Len(str) >= w THEN str ELSE PadLeft(c \o str, w, c)
Pad(n, w) == PadLeft(ToString(n), w, "0")

\* "/".repeat(n)
RECURSIVE Slashes(_)
Slashes(n) == IF n <= 0 THEN "" ELSE "/" \o Slashes(n - 1)

\* ------------------------------------------------------------------------
\* Values
\* ------------------------------------------------------------------------
Unknown == [tag |-> "Unknown"]
Known(v) == [tag |-> "Known", v |-> v]
None == [tag |-> "None"]
Some(v) == [tag |-> "Some", v |-> v]
Unit == [tag |-> "Unit"]

\* the outcome of a panic!
Panic == [tag |-> "Panic"]

\* Data::unwrap: the inner value, a panic for Unknown
Data_unwrap(d) == IF d.tag = "Known" THEN d.v ELSE Panic

\* Data::unwrap_mut
Data_unwrap_mut(d) == IF d.tag = "Known" THEN d.v ELSE Panic

\* Data::as_option
Data_as_option_some(d) == Some(IF d.tag = "Known" THEN d.v ELSE 0)
Data_as_option(d) == IF d.tag = "Known" THEN Some(d.v) ELSE None

\* Data::into_option
Data_into_option(d) == IF d.tag = "Known" THEN Some(d.v) ELSE None

\* Data::to_opt_string, given the rendering of the inner value
to_opt_string_short(d, n, shown) == IF d.tag = "Known" THEN shown ELSE Slashes(n - 1)
to_opt_string(d, n, shown) == IF d.tag = "Known" THEN shown ELSE Slashes(n)

\* ------------------------------------------------------------------------
\* Parser results and their combination
\* ------------------------------------------------------------------------
Ok(p, v, far) == [ok |-> TRUE, pos |-> p, val |-> v, far |-> far]
Fail(far) == [ok |-> FALSE, pos |-> 0, val |-> Unit, far |-> far]

\* a.or(b) / choice((a, b)): b is only tried when a did not match
Or(a, b) == IF a.ok THEN a
            ELSE IF b.ok THEN Ok(b.pos, b.val, Max(a.far, b.far))
            ELSE Fail(Max(a.far, b.far))

\* the result r of a parser that ran after one that gave up at far
After(far, r) == IF r.ok THEN Ok(r.pos, r.val, Max(far, r.far)) ELSE Fail(Max(far, r.far))

\* p.map(f): the same match with another value
Map(r, v) == IF r.ok THEN Ok(r.pos, v, r.far) ELSE r

\* empty().map(|()| v)
Empty(p, v) == Ok(p, v, 0)

\* number of leading characters of lit found in s at p
RECURSIVE MatchLen(_, _, _, _)
MatchLen(lit, s, p, i) ==
    IF i > Len(lit) THEN Len(lit)
    ELSE IF At(s, p + i - 1) # At(lit, i) THEN i - 1
    ELSE MatchLen(lit, s, p, i + 1)

\* just(lit)
just(lit, s, p) ==
    IF Slice(s, p, Len(lit)) = lit THEN Ok(p + Len(lit), lit, 0)
    ELSE Fail(p + MatchLen(lit, s, p, 1))

\* number of leading digits of s at p, at most n
RECURSIVE DigitRun(_, _, _)
DigitRun(s, p, n) == IF n = 0 \/ At(s, p) \notin DigitChars THEN 0
                     ELSE 1 + DigitRun(s, p + 1, n - 1)

\* text::digits(10).exactly(n).to_slice(), parsed as a number
digits(n, s, p) ==
    IF DigitRun(s, p, n) = n THEN Ok(p + n, ParseNat(Slice(s, p, n)), 0)
    ELSE Fail(p + DigitRun(s, p, n))

\* number of leading spaces of s at p
RECURSIVE SpaceRun(_, _)
SpaceRun(s, p) == IF At(s, p) # " " THEN 0 ELSE 1 + SpaceRun(s, p + 1)

\* blanks were read up to position q, where the next one was looked for
Blanks(q) == Ok(q, Unit, q)

\* parsers::any_whitespace: zero or more blanks
any_whitespace(s, p) == Blanks(p + SpaceRun(s, p))

\* parsers::some_whitespace: a separator, i.e. one or more blanks, or the
\* end of the report (the end of the text or its "=" terminator, not consumed)
some_whitespace(s, p) ==
    IF At(s, p) = " " THEN Blanks(p + SpaceRun(s, p))
    ELSE IF p > Len(s) \/ At(s, p) = "=" THEN Ok(p, Unit, 0)
    ELSE Fail(p)

\* a.then_ignore(some_whitespace())
ThenWs(r, s) == IF r.ok THEN Map(After(r.far, some_whitespace(s, r.pos)), r.val) ELSE r

\* just("/").repeated().exactly(n): the placeholder run of a slot of width n
placeholder(n, s, p) ==
    IF Slice(s, p, n) = Slashes(n) THEN Ok(p + n, Unknown, 0)
    ELSE Fail(p + MatchLen(Slashes(n), s, p, 1))

\* Data::parser_inline(n, inner): the placeholder run of width n gives
\* Unknown, otherwise the inner parser gives Known
parser_inline(n, inner, s, p) ==
    Or(placeholder(n, s, p), IF inner.ok THEN Map(inner, Known(inner.val)) ELSE inner)

\* a, then b at the position a ended at (b's value is kept)
Then(a, b) == IF a.ok THEN After(a.far, b) ELSE Fail(a.far)

\* group((a, b, ...)): the start of a group at position p, no value read yet
Start(p) == Ok(p, <<>>, 0)

\* group((..., P)): the parser P at the position the parsers before it (prev)
\* ended at; its value is added to the tuple of theirs
Joined(prev, r) ==
    IF r.ok THEN Ok(r.pos, Append(prev.val, r.val), Max(prev.far, r.far))
    ELSE Fail(Max(prev.far, r.far))
AndThen(prev, P(_, _), s) == IF prev.ok THEN Joined(prev, P(s, prev.pos)) ELSE prev

\* r.map(F)
Build(r, F(_)) == IF r.ok THEN Ok(r.pos, F(r.val), r.far) ELSE r

\* One more round of item.separated_by(sep): acc holds the items read so far
\* and the position after the last one, sp is the separator looked for after
\* them and it the item looked for after the separator.  A separator that is
\* not followed by an item is given back, or kept with allow_trailing().
\* more: an item was added and the next round is to be tried.
SepNext(trailing, acc, sp, it) ==
    IF ~sp.ok THEN [more |-> FALSE, acc |-> Ok(acc.pos, acc.val, Max(acc.far, sp.far))]
    ELSE IF it.ok
         THEN [more |-> TRUE,
               acc  |-> Ok(it.pos, Append(acc.val, it.val),
                           Max(acc.far, Max(sp.far, it.far)))]
         ELSE [more |-> FALSE,
               acc  |-> Ok(IF trailing THEN sp.pos ELSE acc.pos, acc.val,
                           Max(acc.far, Max(sp.far, it.far)))]

\* the first item of item.separated_by(sep) was read
SepStart(first) == [more |-> TRUE, acc |-> Ok(first.pos, <<first.val>>, first.far)]

\* item.separated_by(sep) after at least one item, n being the last round
RECURSIVE SepByMore(_, _, _, _, _, _)
SepByMore(Item(_, _), Sep(_, _), trailing, most, s, n) ==
    IF ~n.more \/ (most > 0 /\ Len(n.acc.val) >= most) THEN n.acc
    ELSE SepByMore(Item, Sep, trailing, most, s,
                   SepNext(trailing, n.acc, Sep(s, n.acc.pos),
                           Item(s, Sep(s, n.acc.pos).pos)))

\* .at_least(least)
AtLeast(least, all) == IF Len(all.val) < least THEN Fail(all.far) ELSE all

\* the items after the first one, or no item at all
SepFirst(Item(_, _), Sep(_, _), trailing, least, most, s, p, first) ==
    IF first.ok
    THEN AtLeast(least, SepByMore(Item, Sep, trailing, most, s, SepStart(first)))
    ELSE IF least = 0 THEN Ok(p, <<>>, first.far) ELSE Fail(first.far)

\* item.separated_by(sep).at_least(least).at_most(most).collect::<Vec<_>>()
\* (most = 0: no upper limit)
separated_by(Item(_, _), Sep(_, _), trailing, least, most, s, p) ==
    SepFirst(Item, Sep, trailing, least, most, s, p, Item(s, p))

\* the separator of item.repeated(): nothing
NoSep(s, p) == Ok(p, Unit, 0)

\* ------------------------------------------------------------------------
\* Kind, station, time
\* ------------------------------------------------------------------------
\* Metar::parser, fn method(): the kind marker and its separator, or Normal
method(s, p) ==
    Or(ThenWs(Map(just("AUTO", s, p), "Automatic"), s),
    Or(ThenWs(Map(just("COR", s, p), "Correction"), s),
    Or(ThenWs(Map(just("CCA", s, p), "Correction"), s),
       Empty(p, "Normal"))))

\* impl Display for Kind
Kind_fmt(kind) == CASE kind = "Normal" -> ""
                    [] kind = "Automatic" -> "AUTO "
                    [] kind = "Correction" -> "COR "

\* the kind stored in the record, from the marker before the station
\* (early_kind) and the one after the time group (kind)
resolve_kind_late_first(early_kind, kind) == IF kind = "Normal" THEN early_kind ELSE kind
resolve_kind(early_kind, kind) == IF early_kind = "Normal" THEN kind ELSE early_kind

\* number of leading characters of s at p that are in the class cs, at most n
RECURSIVE ClassRun(_, _, _, _)
ClassRun(cs, s, p, n) == IF n = 0 \/ At(s, p) \notin cs THEN 0
                         ELSE 1 + ClassRun(cs, s, p + 1, n - 1)

\* regex("[A-Z0-9]{4}")
station(s, p) ==
    IF ClassRun(UpperChars \cup DigitChars, s, p, 4) = 4
    THEN Ok(p + 4, Slice(s, p, 4), 0)
    ELSE Fail(p + ClassRun(UpperChars \cup DigitChars, s, p, 4))

\* Time::parser: day, hour and minute of two digits each, then "Z"
Time_parser(s, p) ==
    LET d == AndThen(Start(p), LAMBDA t, q : digits(2, t, q), s)
        h == AndThen(d, LAMBDA t, q : digits(2, t, q), s)
        m == AndThen(h, LAMBDA t, q : digits(2, t, q), s)
        z == AndThen(m, LAMBDA t, q : just("Z", t, q), s)
    IN  Build(z, LAMBDA x : [date |-> x[1], hour |-> x[2], minute |-> x[3]])

\* impl Display for Time
Time_fmt(t) == Pad(t.date, 2) \o Pad(t.hour, 2) \o Pad(t.minute, 2) \o "Z"

\* ------------------------------------------------------------------------
\* Wind
\* ------------------------------------------------------------------------
WindCalm == [tag |-> "Calm"]
WindPresent(dir, speed, varying) ==
    [tag |-> "Present", dir |-> dir, speed |-> speed, varying |-> varying]
Heading(d) == [tag |-> "Heading", h |-> d]
Variable == [tag |-> "Variable"]
WindSpeed(unit, speed, gusting) == [tag |-> unit, speed |-> speed, gusting |-> gusting]

\* WindDirection::parser: VRB, or a heading of three digits that may be masked
WindDirection_parser(s, p) ==
    Or(Map(just("VRB", s, p), Variable),
       Build(parser_inline(3, digits(3, s, p), s, p), Heading))

\* WindDirection::unwrap_heading: the heading, a panic for VRB
unwrap_heading(dir) == IF dir.tag = "Heading" THEN dir.h ELSE Panic

\* the unit token of a wind speed
WindUnit_parser(s, p) ==
    Or(Map(just("KT", s, p), "Knots"),
    Or(Map(just("KPH", s, p), "KilometresPerHour"),
       Map(just("MPS", s, p), "MetresPerSecond")))

\* WindSpeed::parser: speed of two digits that may be masked, optional gust, unit
WindSpeed_parser(s, p) ==
    LET sp == AndThen(Start(p), LAMBDA t, q : parser_inline(2, digits(2, t, q), t, q), s)
        g  == AndThen(sp, LAMBDA t, q : Or(Build(Then(just("G", t, q), digits(2, t, q + 1)), Some),
                                           Empty(q, None)), s)
        u  == AndThen(g, WindUnit_parser, s)
    IN  Build(u, LAMBDA x : WindSpeed(x[3], x[1], x[2]))

\* the "dddVddd" pair that may follow a wind group
Varying_parser(s, p) ==
    LET from == AndThen(Start(p), WindDirection_parser, s)
        v    == AndThen(from, LAMBDA t, q : just("V", t, q), s)
        to   == AndThen(v, WindDirection_parser, s)
    IN  ThenWs(Build(to, LAMBDA x : Some(<<unwrap_heading(x[1]), unwrap_heading(x[3])>>)), s)

\* impl Parsable for Wind
Wind_parser(s, p) ==
    Or(ThenWs(Map(just("CALM", s, p), WindCalm), s),
       LET dir     == AndThen(Start(p), WindDirection_parser, s)
           speed   == AndThen(dir, LAMBDA t, q : ThenWs(WindSpeed_parser(t, q), t), s)
           varying == AndThen(speed, LAMBDA t, q : Or(Varying_parser(t, q), Empty(q, None)), s)
       IN  Build(varying, LAMBDA x : WindPresent(x[1], x[2], x[3])))

\* the wind of a report without a wind group
WindFallback == WindPresent(Heading(Unknown), WindSpeed("Knots", Unknown, None), None)

\* Display of a heading that may be masked
Heading_fmt_unpadded(d) == to_opt_string(d, 3, IF d.tag = "Known" THEN ToString(d.v) ELSE "")
Heading_fmt(d) == PadLeft(to_opt_string(d, 3, IF d.tag = "Known" THEN ToString(d.v) ELSE ""), 3, "0")

\* impl Display for WindDirection
WindDirection_fmt(dir) == IF dir.tag = "Variable" THEN "VRB" ELSE Heading_fmt(dir.h)

WindUnit_fmt(unit) == CASE unit = "Knots" -> "KT"
                        [] unit = "KilometresPerHour" -> "KPH"
                        [] unit = "MetresPerSecond" -> "MPS"

\* impl Display for WindSpeed
WindSpeed_fmt(sp) ==
    (IF sp.speed.tag = "Known" THEN Pad(sp.speed.v, 2) ELSE "//")
    \o (IF sp.gusting.tag = "Some" THEN "G" \o Pad(sp.gusting.v, 2) ELSE "")
    \o WindUnit_fmt(sp.tag)

\* impl Display for Wind
Wind_fmt(w) ==
    IF w.tag = "Calm" THEN "CALM"
    ELSE WindDirection_fmt(w.dir) \o WindSpeed_fmt(w.speed)
         \o (IF w.varying.tag = "Some"
             THEN " " \o Heading_fmt(w.varying.v[1]) \o "V" \o Heading_fmt(w.varying.v[2])
             ELSE "")

\* ------------------------------------------------------------------------
\* Visibility and runway visual range
\* ------------------------------------------------------------------------
CAVOK == [tag |-> "CAVOK"]
Metres(m) == [tag |-> "Metres", m |-> m]
StatuteMiles(sm) == [tag |-> "StatuteMiles", sm |-> sm]

\* Visibility::parser: CAVOK, four digits of metres, or whole statute miles
Visibility_parser(s, p) ==
    Or(Map(just("CAVOK", s, p), CAVOK),
    Or(Build(digits(4, s, p), Metres),
       LET n  == AndThen(Start(p), LAMBDA t, q : Or(digits(2, t, q), digits(1, t, q)), s)
           sm == AndThen(n, LAMBDA t, q : just("SM", t, q), s)
       IN  Build(sm, LAMBDA x : StatuteMiles(x[1]))))

\* impl Display for Visibility
Visibility_fmt(v) == CASE v.tag = "CAVOK" -> "CAVOK"
                       [] v.tag = "Metres" -> Pad(v.m, 4)
                       [] v.tag = "StatuteMiles" -> ToString(v.sm) \o "SM"

\* Data<Visibility>::to_opt_string(4)
DataVisibility_fmt(d) == to_opt_string(d, 4, IF d.tag = "Known" THEN Visibility_fmt(d.v) ELSE "")

\* CompassDirection::parser, the two-letter directions first
CompassDirection_parser(s, p) ==
    Or(just("NE", s, p), Or(just("NW", s, p), Or(just("SE", s, p), Or(just("SW", s, p),
    Or(just("N", s, p), Or(just("E", s, p), Or(just("S", s, p), just("W", s, p))))))))

\* <(Option<CompassDirection>, Data<Visibility>)>::parser: a reduced
\* visibility, an optional direction with a visibility that may be masked
DirectionalVisibility_parser(s, p) ==
    LET dir == AndThen(Start(p), LAMBDA t, q : Or(Build(CompassDirection_parser(t, q), Some),
                                                  Empty(q, None)), s)
        vis == AndThen(dir, LAMBDA t, q : parser_inline(4, Visibility_parser(t, q), t, q), s)
    IN  Build(vis, LAMBDA x : [dir |-> x[1], vis |-> x[2]])

\* parsers::runway_number: "R", two digits and an optional L, C or R
runway_number(s, p) ==
    LET r    == AndThen(Start(p), LAMBDA t, q : just("R", t, q), s)
        num  == AndThen(r, LAMBDA t, q : digits(2, t, q), s)
        side == AndThen(num, LAMBDA t, q : Or(just("L", t, q), Or(just("C", t, q),
                                           Or(just("R", t, q), Empty(q, "")))), s)
    IN  Build(side, LAMBDA x : Pad(x[2], 2) \o x[3])

\* impl Parsable for RvrValueInner
RvrValueInner_parser(s, p) ==
    LET pv  == Then(just("P", s, p), digits(4, s, p + 1))
        mv  == Then(just("M", s, p), digits(4, s, p + 1))
        vis == digits(4, s, p)
    IN  Or(Map(pv, [tag |-> "GreaterThan", n |-> pv.val]),
        Or(Map(mv, [tag |-> "LessThan", n |-> mv.val]),
           Map(vis, [tag |-> "Exactly", n |-> vis.val])))

JustV(s, p) == just("V", s, p)

\* impl Parsable for RvrValue
RvrValue_parser(s, p) ==
    Build(separated_by(RvrValueInner_parser, JustV, FALSE, 1, 2, s, p),
          LAMBDA x : IF Len(x) = 1 THEN [tag |-> "Single", a |-> x[1]]
                     ELSE [tag |-> "Between", a |-> x[1], b |-> x[2]])

\* impl Parsable for RvrUnit
RvrUnit_parser_metres(s, p) == Empty(p, "Metres")
RvrUnit_parser(s, p) == Or(Map(just("FT", s, p), "Feet"), Empty(p, "Metres"))

\* impl Parsable for RvrTrend
RvrTrend_parser(s, p) ==
    Or(Map(just("U", s, p), "Upwards"),
    Or(Map(just("D", s, p), "Downwards"),
    Or(Map(just("N", s, p), "None"),
       Empty(p, "None"))))

\* impl Parsable for RunwayVisualRange
RunwayVisualRange_parser(s, p) ==
    LET runway == AndThen(Start(p), runway_number, s)
        slash  == AndThen(runway, LAMBDA t, q : just("/", t, q), s)
        value  == AndThen(slash, LAMBDA t, q : parser_inline(4, RvrValue_parser(t, q), t, q), s)
        unit   == AndThen(value, RvrUnit_parser, s)
        sep    == AndThen(unit, LAMBDA t, q : Or(just("/", t, q), Empty(q, Unit)), s)
        trend  == AndThen(sep, LAMBDA t, q : parser_inline(1, RvrTrend_parser(t, q), t, q), s)
    IN  Build(trend, LAMBDA x : [runway |-> x[1], value |-> x[3], unit |-> x[4], trend |-> x[6]])

\* impl Display for RvrValueInner
RvrValueInner_fmt(v) == CASE v.tag = "Exactly" -> Pad(v.n, 4)
                          [] v.tag = "GreaterThan" -> "P" \o Pad(v.n, 4)
                          [] v.tag = "LessThan" -> "M" \o Pad(v.n, 4)

\* impl Display for RvrValue
RvrValue_fmt(v) == IF v.tag = "Single" THEN RvrValueInner_fmt(v.a)
                   ELSE RvrValueInner_fmt(v.a) \o "V" \o RvrValueInner_fmt(v.b)

\* impl Display for RvrUnit
RvrUnit_fmt(u) == IF u = "Feet" THEN "FT" ELSE ""

\* impl Display for RvrTrend
RvrTrend_fmt(t) == CASE t = "Upwards" -> "U" [] t = "Downwards" -> "D" [] t = "None" -> "N"

\* the trend part of impl Display for RunwayVisualRange: a masked trend
\* writes nothing
RvrTrendPart_fmt(trend) == IF trend.tag = "Known" THEN RvrTrend_fmt(trend.v) ELSE ""

\* impl Display for RunwayVisualRange
RunwayVisualRange_fmt(r) ==
    "R" \o r.runway \o "/"
    \o to_opt_string(r.value, 4, IF r.value.tag = "Known" THEN RvrValue_fmt(r.value.v) ELSE "")
    \o RvrUnit_fmt(r.unit)
    \o RvrTrendPart_fmt(r.trend)

\* ------------------------------------------------------------------------
\* Weather, vertical visibility, clouds
\* ------------------------------------------------------------------------
\* impl Parsable for WeatherIntensity
WeatherIntensity_parser(s, p) ==
    Or(Map(just("-", s, p), "Light"),
    Or(Map(just("+", s, p), "Heavy"),
    Or(Map(just("VC", s, p), "InVicinity"),
    Or(Map(just("RE", s, p), "Recent"),
       Empty(p, "Moderate")))))

\* impl Display for WeatherIntensity
WeatherIntensity_fmt(i) == CASE i = "Light" -> "-"
                             [] i = "Moderate" -> ""
                             [] i = "Heavy" -> "+"
                             [] i = "InVicinity" -> "VC"
                             [] i = "Recent" -> "RE"

\* impl Display for WeatherCondition: the code of every condition
WeatherCondition_code ==
    [Shallow |-> "MI", Partial |-> "PR", Patches |-> "BC", LowDrifting |-> "DR",
     Blowing |-> "BL", Showers |-> "SH", Thunderstorm |-> "TS", Freezing |-> "FZ",
     Rain |-> "RA", Drizzle |-> "DZ", Snow |-> "SN", SnowGrains |-> "SG",
     IceCrystals |-> "IC", IcePellets |-> "PL", Hail |-> "GR",
     SnowPelletsOrSmallHail |-> "GS", UnknownPrecipitation |-> "UP", Fog |-> "FG",
     VolcanicAsh |-> "VA", Mist |-> "BR", Haze |-> "HZ", WidespreadDust |-> "DU",
     Smoke |-> "FU", Sand |-> "SA", Spray |-> "PY", Squall |-> "SQ", Dust |-> "PO",
     Duststorm |-> "DS", Sandstorm |-> "SS", FunnelCloud |-> "FC"]
WeatherCondition_fmt(c) == WeatherCondition_code[c]

\* WeatherCondition::parser: one of the two-letter codes
WeatherCondition_parser(s, p) ==
    IF \E c \in DOMAIN WeatherCondition_code : WeatherCondition_code[c] = Slice(s, p, 2)
    THEN Ok(p + 2, CHOOSE c \in DOMAIN WeatherCondition_code :
                      WeatherCondition_code[c] = Slice(s, p, 2), 0)
    ELSE IF \E c \in DOMAIN WeatherCondition_code : At(WeatherCondition_code[c], 1) = At(s, p)
         THEN Fail(p + 1)
         ELSE Fail(p)

\* concatenation of the renderings of a list
RECURSIVE Concat(_, _, _)
Concat(Show(_), xs, sep) ==
    IF Len(xs) = 0 THEN ""
    ELSE IF Len(xs) = 1 THEN Show(xs[1])
    ELSE Show(xs[1]) \o sep \o Concat(Show, Tail(xs), sep)

\* Weather::parser: an intensity and one or more conditions
Weather_parser(s, p) ==
    LET i  == AndThen(Start(p), WeatherIntensity_parser, s)
        cs == AndThen(i, LAMBDA t, q : separated_by(WeatherCondition_parser, NoSep,
                                                    FALSE, 1, 0, t, q), s)
    IN  Build(cs, LAMBDA x : [intensity |-> x[1], conditions |-> x[2]])

\* impl Display for Weather
Weather_fmt(w) == WeatherIntensity_fmt(w.intensity) \o Concat(WeatherCondition_fmt, w.conditions, "")

\* impl Parsable for VerticalVisibility
VerticalVisibility_parser(s, p) ==
    Or(Map(just("VV///", s, p), [tag |-> "ReducedByUnknownAmount"]),
       LET d == Then(just("VV", s, p), digits(3, s, p + 2))
       IN  Map(d, [tag |-> "Distance", d |-> d.val]))

\* impl Display for VerticalVisibility
VerticalVisibility_fmt_unpadded(vv) ==
    IF vv.tag = "Distance" THEN "VV" \o ToString(vv.d) ELSE "VV///"
VerticalVisibility_fmt(vv) == IF vv.tag = "Distance" THEN "VV" \o Pad(vv.d, 3) ELSE "VV///"

\* impl Parsable for Clouds
Clouds_parser(s, p) ==
    Or(ThenWs(Map(just("NCD", s, p), "NoCloudDetected"), s),
    Or(ThenWs(Map(just("NSC", s, p), "NoSignificantCloud"), s),
    Or(ThenWs(Map(just("CLR", s, p), "NoCloudDetected"), s),
       Empty(p, "CloudLayers"))))

\* impl Display for Clouds
Clouds_fmt(c) == CASE c = "NoCloudDetected" -> "NCD"
                   [] c = "NoSignificantCloud" -> "NSC"
                   [] c = "CloudLayers" -> ""

\* impl Parsable for CloudType
CloudType_parser(s, p) ==
    Or(Map(just("TCU", s, p), "ToweringCumulus"),
    Or(Map(just("CB", s, p), "Cumulonimbus"),
       Empty(p, "Normal")))

\* impl Display for CloudType
CloudType_fmt(c) == CASE c = "Normal" -> ""
                      [] c = "Cumulonimbus" -> "CB"
                      [] c = "ToweringCumulus" -> "TCU"

\* the density of a cloud layer
CloudDensity_parser(s, p) ==
    Or(Map(just("FEW", s, p), "Few"),
    Or(Map(just("SCT", s, p), "Scattered"),
    Or(Map(just("BKN", s, p), "Broken"),
       Map(just("OVC", s, p), "Overcast"))))

CloudDensity_fmt(d) == CASE d = "Few" -> "FEW" [] d = "Scattered" -> "SCT"
                         [] d = "Broken" -> "BKN" [] d = "Overcast" -> "OVC"

\* CloudLayer::parser: density, height and type, each of which may be masked
CloudLayer_parser(s, p) ==
    LET density == AndThen(Start(p), LAMBDA t, q : parser_inline(3, CloudDensity_parser(t, q), t, q), s)
        height  == AndThen(density, LAMBDA t, q : parser_inline(3, digits(3, t, q), t, q), s)
        typ     == AndThen(height, LAMBDA t, q : parser_inline(3, CloudType_parser(t, q), t, q), s)
    IN  Build(typ, LAMBDA x : [density |-> x[1], height |-> x[2], typ |-> x[3]])

\* impl Display for CloudLayer
CloudLayer_fmt(l) ==
    to_opt_string(l.density, 3, IF l.density.tag = "Known" THEN CloudDensity_fmt(l.density.v) ELSE "")
    \o PadLeft(to_opt_string(l.height, 3, IF l.height.tag = "Known" THEN ToString(l.height.v) ELSE ""), 3, "0")
    \o to_opt_string(l.typ, 3, IF l.typ.tag = "Known" THEN CloudType_fmt(l.typ.v) ELSE "")

\* ------------------------------------------------------------------------
\* Temperature, pressure, colour code
\* ------------------------------------------------------------------------
\* a temperature is a sign and a magnitude (f32 keeps the sign of -0.0)
Temp(neg, mag) == [neg |-> neg, mag |-> mag]

\* parsers::temperature: two digits, with the prefix M when negative
temperature(s, p) ==
    LET m == Then(just("M", s, p), digits(2, s, p + 1))
        d == digits(2, s, p)
    IN  Or(Map(m, Temp(TRUE, m.val)), Map(d, Temp(FALSE, d.val)))

\* Pressure::parser: Q and four digits of hectopascals, or A and four digits
\* of hundredths of inches of mercury; the digits may be masked
Pressure_parser(s, p) ==
    LET q == Then(just("Q", s, p), parser_inline(4, digits(4, s, p + 1), s, p + 1))
        a == Then(just("A", s, p), parser_inline(4, digits(4, s, p + 1), s, p + 1))
    IN  Or(Map(q, [tag |-> "Hectopascals", v |-> q.val]),
           Map(a, [tag |-> "InchesOfMercury", v |-> a.val]))

\* impl Display for Pressure
Pressure_fmt(pr) ==
    IF pr.tag = "Hectopascals"
    THEN "Q" \o PadLeft(to_opt_string(pr.v, 4, IF pr.v.tag = "Known" THEN ToString(pr.v.v) ELSE ""), 4, "0")
    ELSE IF pr.v.tag = "Known" THEN "A" \o Pad(pr.v.v, 4)
    ELSE ""

\* impl Parsable for Data<ColourCode>
ColourCode_parser_blue_first(s, p) ==
    Or(Map(just("///", s, p), Unknown),
    Or(Map(just("BLU", s, p), Known("Blue")),
    Or(Map(just("BLU+", s, p), Known("BluePlus")),
    Or(Map(just("WHT", s, p), Known("White")),
    Or(Map(just("GRN", s, p), Known("Green")),
    Or(Map(just("YLO", s, p), Known("Yellow")),
    Or(Map(just("AMB", s, p), Known("Amber")),
       Map(just("RED", s, p), Known("Red")))))))))
ColourCode_parser(s, p) ==
    Or(Map(just("///", s, p), Unknown),
    Or(Map(just("BLU+", s, p), Known("BluePlus")),
    Or(Map(just("BLU", s, p), Known("Blue")),
    Or(Map(just("WHT", s, p), Known("White")),
    Or(Map(just("GRN", s, p), Known("Green")),
    Or(Map(just("YLO", s, p), Known("Yellow")),
    Or(Map(just("AMB", s, p), Known("Amber")),
       Map(just("RED", s, p), Known("Red")))))))))

\* impl Display for ColourCode
ColourCode_fmt(c) == CASE c = "BluePlus" -> "BLU+" [] c = "Blue" -> "BLU"
                       [] c = "White" -> "WHT" [] c = "Green" -> "GRN"
                       [] c = "Yellow" -> "YLO" [] c = "Amber" -> "AMB"
                       [] c = "Red" -> "RED"

\* ------------------------------------------------------------------------
\* Windshear, runway condition, sea condition, trends, clouds in vicinity
\* ------------------------------------------------------------------------
\* WindshearWarnings::parser: "WS ALL RWY" or "WS" and one runway
WindshearWarnings_parser(s, p) ==
    LET ws == AndThen(Start(p), LAMBDA t, q : ThenWs(just("WS", t, q), t), s)
        to == AndThen(ws, LAMBDA t, q : Or(Map(just("ALL RWY", t, q), [tag |-> "AllRunways"]),
                                           Build(runway_number(t, q),
                                                 LAMBDA r : [tag |-> "Runway", runway |-> r])), s)
    IN  Build(to, LAMBDA x : x[2])

\* RunwayCondition::parser: a runway and six characters, digits or masked
RunwayCondition_parser(s, p) ==
    LET runway == AndThen(Start(p), runway_number, s)
        slash  == AndThen(runway, LAMBDA t, q : just("/", t, q), s)
        code   == AndThen(slash, LAMBDA t, q :
                             IF ClassRun(DigitChars \cup {"/"}, t, q, 6) = 6
                             THEN Ok(q + 6, Slice(t, q, 6), 0)
                             ELSE Fail(q + ClassRun(DigitChars \cup {"/"}, t, q, 6)), s)
    IN  Build(code, LAMBDA x : [runway |-> x[1], code |-> x[3]])

\* SeaCondition::parser: "W", the water temperature, "/S" and the sea state
SeaCondition_parser(s, p) ==
    LET w     == AndThen(Start(p), LAMBDA t, q : just("W", t, q), s)
        temp  == AndThen(w, LAMBDA t, q : parser_inline(2, digits(2, t, q), t, q), s)
        sep   == AndThen(temp, LAMBDA t, q : just("/S", t, q), s)
        state == AndThen(sep, LAMBDA t, q : digits(1, t, q), s)
    IN  Build(state, LAMBDA x : [temperature |-> x[2], state |-> x[4]])

WeatherList_parser(s, p) == separated_by(Weather_parser, some_whitespace, FALSE, 0, 0, s, p)

\* Trend::parser: NOSIG, or TEMPO / BECMG with the conditions changed to
\* (optional wind, optional visibility, weather list)
Trend_parser(s, p) ==
    LET kind == AndThen(Start(p), LAMBDA t, q :
                            ThenWs(Or(Map(just("TEMPO", t, q), "Temporarily"),
                                      Map(just("BECMG", t, q), "Becoming")), t), s)
        wind == AndThen(kind, LAMBDA t, q : Or(Build(Wind_parser(t, q), Some), Empty(q, None)), s)
        vis  == AndThen(wind, LAMBDA t, q : Or(Build(ThenWs(Visibility_parser(t, q), t), Some),
                                               Empty(q, None)), s)
        wx   == AndThen(vis, LAMBDA t, q : Or(ThenWs(WeatherList_parser(t, q), t),
                                              Empty(q, <<>>)), s)
    IN  Or(Map(just("NOSIG", s, p), [tag |-> "NoSignificantChange"]),
           Build(wx, LAMBDA x : [tag |-> x[1], wind |-> x[2], visibility |-> x[3],
                                 weather |-> x[4]]))

\* impl Display for Trend and for WeatherChangeConditions
Trend_fmt(tr) ==
    IF tr.tag = "NoSignificantChange" THEN "NOSIG"
    ELSE (IF tr.tag = "Temporarily" THEN "TEMPO" ELSE "BECMG")
         \o (IF tr.wind.tag = "Some" THEN " " \o Wind_fmt(tr.wind.v) ELSE "")
         \o (IF tr.visibility.tag = "Some" THEN " " \o Visibility_fmt(tr.visibility.v) ELSE "")
         \o (IF Len(tr.weather) > 0 THEN " " \o Concat(Weather_fmt, tr.weather, " ") ELSE "")

SlashDirection_parser(s, p) == Then(just("/", s, p), CompassDirection_parser(s, p + 1))

\* impl Parsable for (Vec<CompassDirection>, Data<CloudType>)
CloudsInVicinity_parser_any(s, p) ==
    LET typ  == AndThen(Start(p), LAMBDA t, q : parser_inline(3, CloudType_parser(t, q), t, q), s)
        dirs == AndThen(typ, LAMBDA t, q : separated_by(SlashDirection_parser, NoSep,
                                                        FALSE, 0, 0, t, q), s)
    IN  Build(dirs, LAMBDA x : [dirs |-> x[2], typ |-> x[1]])
CloudsInVicinity_parser(s, p) ==
    LET typ  == AndThen(Start(p), LAMBDA t, q : parser_inline(3, CloudType_parser(t, q), t, q), s)
        dirs == AndThen(typ, LAMBDA t, q : separated_by(SlashDirection_parser, NoSep,
                                                        FALSE, 1, 0, t, q), s)
    IN  Build(dirs, LAMBDA x : [dirs |-> x[2], typ |-> x[1]])

\* ------------------------------------------------------------------------
\* Remarks
\* ------------------------------------------------------------------------
\* number of characters of s from p on that are not "="
RECURSIVE NotTerminatorRun(_, _)
NotTerminatorRun(s, p) == IF p > Len(s) \/ At(s, p) = "=" THEN 0
                          ELSE 1 + NotTerminatorRun(s, p + 1)

\* str::trim
RECURSIVE trim(_)
trim(str) == IF Len(str) = 0 THEN ""
             ELSE IF At(str, 1) = " " THEN trim(Tail(str))
             ELSE IF At(str, Len(str)) = " " THEN trim(SubSeq(str, 1, Len(str) - 1))
             ELSE str

\* just("RMK").then(none_of("=").repeated().collect::<String>())
\*     .map(|(_, s)| Some(s.trim().to_string())).or(empty().map(|()| None))
Remarks_parser_untrimmed(s, p) ==
    LET rmk  == just("RMK", s, p)
        n    == NotTerminatorRun(s, rmk.pos)
        body == Then(rmk, Ok(rmk.pos + n, Some(Slice(s, rmk.pos, n)), rmk.pos + n))
    IN  Or(body, Empty(p, None))
Remarks_parser(s, p) ==
    LET rmk  == just("RMK", s, p)
        n    == NotTerminatorRun(s, rmk.pos)
        body == Then(rmk, Ok(rmk.pos + n, Some(trim(Slice(s, rmk.pos, n))), rmk.pos + n))
    IN  Or(body, Empty(p, None))

\* ------------------------------------------------------------------------
\* The report grammar: the groups of Metar::parser, in order
\* ------------------------------------------------------------------------
\* the leading report-type tag
TagGroup(s, p) == Or(ThenWs(Map(just("METAR", s, p), Unit), s), Empty(p, Unit))

\* the wind block, or the fallback of a report without one
WindGroup(s, p) == Or(Wind_parser(s, p), Empty(p, WindFallback))

\* the visibility group, or the fallback of a report without one
VisibilityGroup_lenient(s, p) ==
    Or(ThenWs(parser_inline(4, Visibility_parser(s, p), s, p), s),
       ThenWs(Ok(p + ClassRun(UpperChars \cup DigitChars, s, p, 4), Unknown, 0), s))
VisibilityGroup(s, p) ==
    Or(ThenWs(parser_inline(4, Visibility_parser(s, p), s, p), s), Empty(p, Unknown))

\* the reduced directional visibilities
DirectionalGroup(s, p) ==
    separated_by(DirectionalVisibility_parser, some_whitespace, TRUE, 0, 0, s, p)

\* the runway visual ranges
RvrGroup(s, p) == separated_by(RunwayVisualRange_parser, some_whitespace, TRUE, 0, 0, s, p)

\* the value of the atmospheric block: weather, vertical visibility, cloud
\* state and cloud layers
Atmos(wx, vvis, clouds, layers) ==
    [weather |-> wx, vert_visibility |-> vvis, clouds |-> clouds, cloud_layers |-> layers]
NoCloud == Atmos(Known(<<>>), None, "NoCloudDetected", <<>>)

\* the weather list of the atmospheric block, which may be masked as a whole
WeatherGroup(s, p) ==
    Or(ThenWs(parser_inline(2, WeatherList_parser(s, p), s, p), s), Empty(p, Known(<<>>)))

\* the vertical visibility of the atmospheric block
VertVisibilityGroup(s, p) ==
    Or(Build(ThenWs(VerticalVisibility_parser(s, p), s), Some), Empty(p, None))

\* the cloud layers of the atmospheric block
CloudLayerGroup(s, p) == separated_by(CloudLayer_parser, some_whitespace, TRUE, 0, 0, s, p)

\* the atmospheric block: SKC, CLR, the full tuple, or nothing
AtmosGroup(s, p) ==
    Or(ThenWs(Map(just("SKC", s, p), NoCloud), s),
    Or(ThenWs(Map(just("CLR", s, p), NoCloud), s),
    Or(LET wx     == AndThen(Start(p), WeatherGroup, s)
           vvis   == AndThen(wx, VertVisibilityGroup, s)
           clouds == AndThen(vvis, Clouds_parser, s)
           layers == AndThen(clouds, CloudLayerGroup, s)
       IN  Build(layers, LAMBDA x : Atmos(x[1], x[2], x[3], x[4])),
       Empty(p, NoCloud))))

\* the dewpoint slot: a dewpoint that may be masked, or nothing
DewpointSlot(s, p) == Or(parser_inline(2, temperature(s, p), s, p), Empty(p, Unknown))

\* the temperature/dewpoint group, or the fallback of a report without one
TemperatureGroup(s, p) ==
    LET temp  == AndThen(Start(p), LAMBDA t, q : parser_inline(2, temperature(t, q), t, q), s)
        slash == AndThen(temp, LAMBDA t, q : just("/", t, q), s)
        dewp  == AndThen(slash, DewpointSlot, s)
    IN  Or(ThenWs(Build(dewp, LAMBDA x : <<x[1], x[3]>>), s), Empty(p, <<Unknown, Unknown>>))

\* the pressure group, or the fallback of a report without one
PressureFallback == [tag |-> "Hectopascals", v |-> Unknown]
PressureGroup(s, p) == Or(ThenWs(Pressure_parser(s, p), s), Empty(p, PressureFallback))

ConditionList_parser(s, p) == separated_by(WeatherCondition_parser, NoSep, FALSE, 1, 0, s, p)

\* one recent-weather block: "RE" and its condition codes, which may be masked
RecentBlock_parser(s, p) ==
    Then(just("RE", s, p), parser_inline(2, ConditionList_parser(s, p + 2), s, p + 2))

\* the recent-weather blocks
RecentGroup(s, p) ==
    Or(ThenWs(separated_by(RecentBlock_parser, some_whitespace, FALSE, 0, 0, s, p), s),
       Empty(p, <<>>))

\* a.map(Some).then_ignore(some_whitespace()).or(empty().map(|()| None))
Optional(r, s, p) == Or(Build(ThenWs(r, s), Some), Empty(p, None))

ColourGroup(s, p) == Optional(ColourCode_parser(s, p), s, p)
WindshearGroup(s, p) == Optional(WindshearWarnings_parser(s, p), s, p)
RunwayConditionGroup(s, p) ==
    separated_by(RunwayCondition_parser, some_whitespace, TRUE, 0, 0, s, p)
SeaGroup(s, p) == Optional(SeaCondition_parser(s, p), s, p)
TrendGroup(s, p) == separated_by(Trend_parser, any_whitespace, TRUE, 0, 0, s, p)
VicinityGroup(s, p) ==
    separated_by(CloudsInVicinity_parser, some_whitespace, TRUE, 0, 0, s, p)

\* the "=" that may end a report
TerminatorGroup(s, p) == Or(Map(just("=", s, p), Unit), Empty(p, Unit))

\* the record built from the values of the groups, in the order of the grammar
Metar_record(x) ==
    [station |-> x[3],
     time |-> x[4],
     kind |-> resolve_kind(x[2], x[5]),
     wind |-> x[6],
     visibility |-> x[7],
     reduced_directional_visibility |-> x[8],
     rvr |-> x[9],
     weather |-> x[10].weather,
     vert_visibility |-> x[10].vert_visibility,
     clouds |-> x[10].clouds,
     cloud_layers |-> x[10].cloud_layers,
     temperature |-> x[11][1],
     dewpoint |-> x[11][2],
     pressure |-> x[12],
     colour_code |-> x[14],
     recent_weather |-> x[13],
     windshear_warnings |-> x[15],
     sea_condition |-> x[17],
     runway_conditions |-> x[16],
     trends |-> x[18],
     clouds_in_vicinity |-> x[19],
     remarks |-> x[20]]

\* impl Parsable for Metar, fn parser: the groups in order and the record
\* built from them
Metar_parser(s, p) ==
    Build(AndThen(AndThen(AndThen(AndThen(AndThen(AndThen(AndThen(AndThen(AndThen(AndThen(AndThen(AndThen(AndThen(AndThen(AndThen(AndThen(AndThen(AndThen(AndThen(AndThen(AndThen(AndThen(Start(p),
          TagGroup, s),
          method, s),
          LAMBDA t, q : ThenWs(station(t, q), t), s),
          LAMBDA t, q : ThenWs(Time_parser(t, q), t), s),
          method, s),
          WindGroup, s),
          VisibilityGroup, s),
          DirectionalGroup, s),
          RvrGroup, s),
          AtmosGroup, s),
          TemperatureGroup, s),
          PressureGroup, s),
          RecentGroup, s),
          ColourGroup, s),
          WindshearGroup, s),
          RunwayConditionGroup, s),
          SeaGroup, s),
          TrendGroup, s),
          VicinityGroup, s),
          Remarks_parser, s),
          any_whitespace, s),
          TerminatorGroup, s),
          Metar_record)

\* the error of a failed parse: the byte offset of the deepest position an
\* alternative gave up at and the length of the character there; the text is
\* attached by Metar::parse
MetarError(data, far) ==
    [string |-> "", start |-> far - 1, length |-> IF far <= Len(data) THEN 1 ELSE 0]

\* Parsable::parse: the value when the parser r matched the whole text,
\* otherwise the errors
Parsable_parse(data, r) ==
    IF r.ok /\ r.pos = Len(data) + 1
    THEN [ok |-> TRUE, rec |-> r.val, errors |-> <<>>]
    ELSE [ok |-> FALSE, rec |-> Unit,
          errors |-> <<MetarError(data, IF r.ok THEN Max(r.far, r.pos) ELSE r.far)>>]

\* Parsable::parse for VerticalVisibility
VerticalVisibility_parse(data) == Parsable_parse(data, VerticalVisibility_parser(data, 1))

\* Metar::parse, map_err: every error is given the text that was parsed
set_string_absent(res, data) == res
set_string(res, data) ==
    [res EXCEPT !.errors = [i \in DOMAIN @ |-> [@[i] EXCEPT !.string = data]]]

\* the outcome of a call that did not return: a conversion inside a
\* sub-parser panicked
Aborted == [ok |-> FALSE, rec |-> Panic, errors |-> <<>>]

\* did building the value of the wind group panic (unwrap_heading of a
\* direction that is not a heading)
Panicked(r) ==
    /\ r.ok
    /\ r.val.wind.tag = "Present"
    /\ r.val.wind.varying.tag = "Some"
    /\ Panic \in {r.val.wind.varying.v[1], r.val.wind.varying.v[2]}

\* Metar::parse of the text data, r being the outcome of the grammar on it
Metar_result(data, r) ==
    IF Panicked(r) THEN Aborted ELSE set_string(Parsable_parse(data, r), data)

\* Metar::parse
Metar_parse(data) == Metar_result(data, Metar_parser(data, 1))

\* ------------------------------------------------------------------------
\* impl Display for Metar, group by group
\* ------------------------------------------------------------------------
Fmt_head(m) == m.station \o " " \o Time_fmt(m.time) \o " " \o Kind_fmt(m.kind)

Fmt_wind(m) == Wind_fmt(m.wind) \o " "

Fmt_visibility(m) == DataVisibility_fmt(m.visibility) \o " "

DirectionalVisibility_fmt(dv) ==
    (IF dv.dir.tag = "Some" THEN dv.dir.v ELSE "") \o DataVisibility_fmt(dv.vis) \o " "
Fmt_directional(m) == Concat(DirectionalVisibility_fmt, m.reduced_directional_visibility, "")

RvrEntry_fmt(r) == RunwayVisualRange_fmt(r) \o " "
Fmt_rvr(m) == Concat(RvrEntry_fmt, m.rvr, "")

Fmt_weather(m) ==
    IF m.weather.tag = "Known"
    THEN (IF Concat(Weather_fmt, m.weather.v, " ") # ""
          THEN Concat(Weather_fmt, m.weather.v, " ") \o " "
          ELSE "")
    ELSE "// "

Fmt_vert_visibility(m) ==
    IF m.vert_visibility.tag = "Some"
    THEN VerticalVisibility_fmt(m.vert_visibility.v) \o " "
    ELSE ""

Fmt_clouds(m) ==
    IF m.visibility # Known(CAVOK) /\ m.clouds # "CloudLayers"
    THEN Clouds_fmt(m.clouds) \o " "
    ELSE ""

CloudLayerEntry_fmt(l) == CloudLayer_fmt(l) \o " "
Fmt_cloud_layers(m) == Concat(CloudLayerEntry_fmt, m.cloud_layers, "")

\* the sign prefix and the digits of a temperature or dewpoint
Temperature_fmt_minus(t) ==
    (IF t.tag = "Known" /\ t.v.neg THEN "-" ELSE "")
    \o to_opt_string(t, 2, IF t.tag = "Known" THEN Pad(t.v.mag, 2) ELSE "")
Temperature_fmt_below_zero(t) ==
    (IF t.tag = "Known" /\ t.v.neg /\ t.v.mag > 0 THEN "M" ELSE "")
    \o to_opt_string(t, 2, IF t.tag = "Known" THEN Pad(t.v.mag, 2) ELSE "")
Temperature_fmt(t) ==
    (IF t.tag = "Known" /\ t.v.neg THEN "M" ELSE "")
    \o to_opt_string(t, 2, IF t.tag = "Known" THEN Pad(t.v.mag, 2) ELSE "")

Fmt_temperature(m) == Temperature_fmt(m.temperature) \o "/" \o Temperature_fmt(m.dewpoint)

Fmt_pressure(m) == " " \o Pressure_fmt(m.pressure)

RecentBlock_fmt_joined(wx) ==
    "RE" \o (IF wx.tag = "Known" THEN Concat(WeatherCondition_fmt, wx.v, "") ELSE "")
RecentBlock_fmt(wx) ==
    " RE" \o (IF wx.tag = "Known" THEN Concat(WeatherCondition_fmt, wx.v, "") ELSE "")
Fmt_recent_weather(m) == Concat(RecentBlock_fmt, m.recent_weather, "")

Fmt_colour_code(m) ==
    IF m.colour_code.tag = "Some"
    THEN " " \o to_opt_string(m.colour_code.v, 3,
                              IF m.colour_code.v.tag = "Known"
                              THEN ColourCode_fmt(m.colour_code.v.v) ELSE "")
    ELSE ""

TrendEntry_fmt(tr) == " " \o Trend_fmt(tr)
Fmt_trends(m) == Concat(TrendEntry_fmt, m.trends, "")

Fmt_remarks(m) == IF m.remarks.tag = "Some" THEN " RMK " \o m.remarks.v ELSE ""

\* impl Display for Metar
Metar_fmt(m) ==
    Fmt_head(m) \o Fmt_wind(m) \o Fmt_visibility(m) \o Fmt_directional(m) \o Fmt_rvr(m)
    \o Fmt_weather(m) \o Fmt_vert_visibility(m) \o Fmt_clouds(m) \o Fmt_cloud_layers(m)
    \o Fmt_temperature(m) \o Fmt_pressure(m) \o Fmt_recent_weather(m)
    \o Fmt_colour_code(m) \o Fmt_trends(m) \o Fmt_remarks(m)

\* ------------------------------------------------------------------------
\* Reports given to the decoder
\* ------------------------------------------------------------------------
\* A report is put together from its groups, one token per group ("" when
\* the group is absent), each followed by a single blank.
FieldOrder == <<"tag", "early", "station", "time", "kind", "wind", "vis", "dirvis",
                "rvr", "wx", "vv", "clouds", "layers", "temp", "press", "recent",
                "colour", "shear", "rwycond", "sea", "trend", "civ", "remarks">>

\* the tokens of the groups i..j of g, joined by single blanks
RECURSIVE JoinFields(_, _, _)
JoinFields(g, i, j) ==
    IF i > j THEN ""
    ELSE LET rest == JoinFields(g, i + 1, j)
             tok  == g[FieldOrder[i]]
         IN  IF tok = "" THEN rest
             ELSE IF rest = "" THEN tok
             ELSE tok \o " " \o rest

\* the text of the report with the groups g
Compose(g) == JoinFields(g, 1, Len(FieldOrder)) \o g.term

\* the 1-based position at which the token of group f starts in Compose(g)
SlotPos(g, f) ==
    LET k      == CHOOSE i \in 1..Len(FieldOrder) : FieldOrder[i] = f
        before == JoinFields(g, 1, k - 1)
    IN  IF before = "" THEN 1 ELSE Len(before) + 2

Blank == [tag |-> "", early |-> "", station |-> "EDDM", time |-> "222020Z", kind |-> "",
          wind |-> "", vis |-> "", dirvis |-> "", rvr |-> "", wx |-> "", vv |-> "",
          clouds |-> "", layers |-> "", temp |-> "", press |-> "", recent |-> "",
          colour |-> "", shear |-> "", rwycond |-> "", sea |-> "", trend |-> "",
          civ |-> "", remarks |-> "", term |-> ""]

\* "EDDM 222020Z AUTO VRB01KT 9999 20/13 Q1017"
Typical == [Blank EXCEPT !.kind = "AUTO", !.wind = "VRB01KT", !.vis = "9999",
                         !.temp = "20/13", !.press = "Q1017"]

\* "ETSB 032220Z AUTO /////KT //// // ////// ///// Q//// ///"
FullyMasked == [Blank EXCEPT !.station = "ETSB", !.time = "032220Z", !.kind = "AUTO",
                             !.wind = "/////KT", !.vis = "////", !.wx = "//",
                             !.layers = "//////", !.temp = "/////", !.press = "Q////",
                             !.colour = "///"]

\* "ESSP 032220Z AUTO 02012KT 1200 R09/P1500N R27/P1500N -SN FEW003/// BKN006///
\*  OVC010/// M02/M03 Q0990 RESHUP RESN"
Wintry == [Blank EXCEPT !.station = "ESSP", !.time = "032220Z", !.kind = "AUTO",
                        !.wind = "02012KT", !.vis = "1200",
                        !.rvr = "R09/P1500N R27/P1500N", !.wx = "-SN",
                        !.layers = "FEW003/// BKN006/// OVC010///",
                        !.temp = "M02/M03", !.press = "Q0990", !.recent = "RESHUP RESN"]

Bases == {Typical, FullyMasked, Wintry}

\* largest temperature magnitude of the generated temperature groups
MaxTemp == 2

\* a temperature token of every sign and magnitude
TempTokens == {Pad(n, 2) : n \in 0..MaxTemp} \cup {"M" \o Pad(n, 2) : n \in 0..MaxTemp}

\* the visibility tokens that are neither a visibility nor a placeholder
MalformedVisibility == {"12AB", "X234", "ABCD"}

\* the tokens tried for each group, one group at a time
Options ==
    [tag     |-> {"", "METAR"},
     early   |-> {"", "AUTO", "COR", "CCA"},
     station |-> {"EDDM", "K1AB"},
     time    |-> {"222020Z", "010000Z"},
     kind    |-> {"", "AUTO", "COR", "CCA"},
     wind    |-> {"", "VRB01KT", "/////KT", "CALM", "27010KT 240V300", "28020G35KT",
                  "350//MPS ///V020", "35010KT 350V020", "27010KT VRBV020"},
     vis     |-> {"", "9999", "0450", "////", "CAVOK", "10SM"} \cup MalformedVisibility,
     dirvis  |-> {"", "NE4000", "////", "0800 S////"},
     rvr     |-> {"", "R26/0800N", "R26/0800", "R26/0800//", "R24L/P1500D",
                  "R25L/1800V3000FT", "R26/////U", "R26/M0050/D R08/0800",
                  "R26/0800V1000V1200"},
     wx      |-> {"", "-TSRA", "//", "-RA FG", "VCSH"},
     vv      |-> {"", "VV///", "VV003"},
     clouds  |-> {"", "NCD", "NSC", "SKC", "CLR"},
     layers  |-> {"", "FEW002 BKN004", "//////", "SCT///CB", "FEW130///"},
     temp    |-> {"", "/////", "20/13", "20/", "///M01"}
                 \cup {a \o "/" \o b : a \in TempTokens, b \in TempTokens},
     press   |-> {"", "Q1017", "Q////", "A2992", "Q0995"},
     recent  |-> {"", "RERA", "RE//", "RESHUP RESN"},
     colour  |-> {"", "BLU+", "BLU", "///", "RED"},
     shear   |-> {"", "WS R26", "WS ALL RWY"},
     rwycond |-> {"", "R26/290250"},
     sea     |-> {"", "W15/S2"},
     trend   |-> {"", "NOSIG", "TEMPO 28020G35KT 3500 TSRA", "BECMG 4000"},
     civ     |-> {"", "CB/NE"},
     remarks |-> {"", "RMK A B", "RMK"},
     term    |-> {"", "="}]

\* a base report with one group replaced
Singles == UNION {{[b EXCEPT ![f] = o] : o \in Options[f]} :
                      <<b, f>> \in Bases \X (DOMAIN Options)}

\* the typical report with every combination of kind markers, tag and terminator
KindInputs == {[Typical EXCEPT !.tag = t, !.early = e, !.kind = k, !.term = z] :
                  <<t, e, k, z>> \in Options.tag \X Options.early \X Options.kind \X Options.term}

\* every combination of the groups that have a fallback, with a colour code
CoreInputs ==
    {[Blank EXCEPT !.wind = w, !.vis = v, !.temp = tp, !.press = pr, !.colour = c] :
        <<w, v, tp, pr, c>> \in {"", "VRB01KT", "/////KT"}
                               \X {"", "9999", "////", "CAVOK"}
                               \X {"", "20/13", "/////", "M02/M03"}
                               \X {"", "Q1017", "Q////"}
                               \X {"", "///", "BLU"}}

\* a CAVOK report with every cloud-state token
CavokInputs == {[Typical EXCEPT !.vis = "CAVOK", !.clouds = c, !.wx = w] :
                   <<c, w>> \in Options.clouds \X {"", "-RA"}}

\* reports that end too early or have a malformed station, time or pressure
ErrorInputs == {[Blank EXCEPT !.time = "2220"], [Blank EXCEPT !.station = "EDD"],
                [Typical EXCEPT !.press = "Q10"], [Typical EXCEPT !.time = "22202OZ"]}

\* the spellings of "no cloud", alone and after weather or a vertical visibility
NoCloudTokens == {"NCD", "SKC", "CLR"}
NoCloudInputs == {[Typical EXCEPT !.wx = w, !.vv = v, !.clouds = c] :
                     <<w, v, c>> \in {"", "-RA"} \X {"", "VV003"} \X NoCloudTokens}

\* one runway visual range of every form: a reading or two readings joined by
\* "V", each exact, "P" or "M"; with and without "FT"; with and without a trend
RvrReadings == {"0800", "P1500", "M0050"}
RvrValues == {<<a>> : a \in RvrReadings} \cup (RvrReadings \X RvrReadings)
RvrUnits == {"", "FT"}
RvrTrends == {"", "U", "D", "N"}
RvrToken(v, u, tr) ==
    "R24L/" \o (IF Len(v) = 1 THEN v[1] ELSE v[1] \o "V" \o v[2]) \o u \o tr
RvrInputs == {[Typical EXCEPT !.rvr = RvrToken(v, u, tr)] :
                 <<v, u, tr>> \in RvrValues \X RvrUnits \X RvrTrends}

\* recent-weather blocks, one to three of them, with and without a colour
\* code after them, and "RE" without a code
RecentTokens == {"RERA", "RESHUP RESN", "RETSRA RESN REFG"}
RecentInputs == {[Typical EXCEPT !.recent = r, !.colour = c] :
                    <<r, c>> \in (RecentTokens \cup {"RE"}) \X {"", "BLU"}}

\* remarks of every shape, with and without the "=" that ends a report
RemarksTokens == {"RMK A B", "RMK", "RMK  A  B ", "RMK A=B", "RMK QFE 1013 "}
RemarksInputs == {[Typical EXCEPT !.remarks = r, !.term = z] :
                     <<r, z>> \in (RemarksTokens \cup {""}) \X {"", "=", " ="}}

Inputs == Singles \cup KindInputs \cup CoreInputs \cup CavokInputs
          \cup ErrorInputs \cup NoCloudInputs \cup RvrInputs
          \cup RecentInputs \cup RemarksInputs

\* the groups that have a fallback value in the grammar
FallbackGroups == {"wind", "vis", "temp", "press"}

\* ------------------------------------------------------------------------
\* State: one report, decoded, encoded again and decoded again
\* ------------------------------------------------------------------------
VARIABLES
    groups,     \* the groups the report was put together from
    text,       \* the report given to Metar::parse
    pc,         \* "start", "parsed", "rendered", "reparsed" or "dropped"
    parsed,     \* Metar::parse(text)
    rendered,   \* parsed.to_string()
    reparsed,   \* Metar::parse(rendered)
    dropped,    \* the group left out of the shorter report
    shorter,    \* the report without the group dropped
    shortParsed, \* Metar::parse(shorter)
    given,      \* a value or a text handed to the functions of one type
    trail,      \* the functions applied to it so far, each with its outcome
    memo        \* what every sub-parser makes of the text at every position

report == <<groups, text, pc, parsed, rendered, reparsed, dropped, shorter, shortParsed, memo>>
vars == <<groups, text, pc, parsed, rendered, reparsed, dropped, shorter, shortParsed,
          given, trail, memo>>

NoResult == [ok |-> FALSE, rec |-> Unit, errors |-> <<>>]
NoValue == [type |-> "none", v |-> Unit, n |-> 0]
NoMemo == <<>>

Init ==
    /\ groups \in Inputs
    /\ text = Compose(groups)
    /\ pc = "start"
    /\ parsed = NoResult
    /\ rendered = ""
    /\ reparsed = NoResult
    /\ dropped = ""
    /\ shorter = ""
    /\ shortParsed = NoResult
    /\ given = NoValue
    /\ trail = <<>>
    /\ memo = NoMemo

\* let record = Metar::parse(text)
Parse ==
    /\ pc = "start"
    /\ parsed' = Metar_parse(text)
    /\ pc' = "parsed"
    /\ UNCHANGED <<groups, text, rendered, reparsed, dropped, shorter, shortParsed, given, trail, memo>>

\* record.to_string()
Format ==
    /\ pc = "parsed"
    /\ parsed.ok
    /\ rendered' = Metar_fmt(parsed.rec)
    /\ pc' = "rendered"
    /\ UNCHANGED <<groups, text, parsed, reparsed, dropped, shorter, shortParsed, given, trail, memo>>

\* Metar::parse(&record.to_string())
Reparse ==
    /\ pc = "rendered"
    /\ reparsed' = Metar_parse(rendered)
    /\ pc' = "reparsed"
    /\ UNCHANGED <<groups, text, parsed, rendered, dropped, shorter, shortParsed, given, trail, memo>>

\* Metar::parse of the same report without the group g
ParseWithout(g) ==
    /\ pc = "parsed"
    /\ groups[g] # ""
    /\ dropped' = g
    /\ shorter' = Compose([groups EXCEPT ![g] = ""])
    /\ shortParsed' = Metar_parse(shorter')
    /\ pc' = "dropped"
    /\ UNCHANGED <<groups, text, parsed, rendered, reparsed, given, trail, memo>>

Next ==
    \/ Parse
    \/ Format
    \/ Reparse
    \/ \E g \in FallbackGroups : ParseWithout(g)

Spec == Init /\ [][Next]_vars

\* ------------------------------------------------------------------------
\* The functions of one type, applied to one value
\* ------------------------------------------------------------------------
\* the largest distance that is written with three digits
MaxDistance == 999

Distance(n) == [tag |-> "Distance", d |-> n]
ReducedByUnknownAmount == [tag |-> "ReducedByUnknownAmount"]
VerticalVisibilities == {ReducedByUnknownAmount} \cup {Distance(n) : n \in 0..MaxDistance}

\* texts given to VerticalVisibility::parse
VerticalVisibilityTexts == {"VV///", "VV350", "VV000", "VV999", "VV35", "VV3500", "VV//",
                            "VV////", "VV", "V350", "VV35A", "VV 350", ""}

\* largest inner value and largest width of the Data values tried
MaxKnown == 3
MaxWidth == 4
DataValues == {Unknown} \cup {Known(v) : v \in 0..MaxKnown}

\* a text as a value
Str(str) == [tag |-> "str", text |-> str]

\* the value v of the type named, with the width n for to_opt_string
Value(type, v, n) == [type |-> type, v |-> v, n |-> n]

\* the colour codes, known and masked, and texts given to the parser of one
ColourCodes == {"BluePlus", "Blue", "White", "Green", "Yellow", "Amber", "Red"}
DataColourCodes == {Unknown} \cup {Known(c) : c \in ColourCodes}
ColourCodeTexts == {"BLU+", "BLU", "///", "RED", "BLU +", "BL", "//", "BLUE", ""}

\* a Data<ColourCode> as a value
Colour(d) == [tag |-> "ColourCode", data |-> d]

\* Parsable::parse for Data<ColourCode>
ColourCode_parse(data) == Parsable_parse(data, ColourCode_parser(data, 1))

\* Data<ColourCode>::to_opt_string(3), as Display for Metar writes it
DataColourCode_fmt(d) == to_opt_string(d, 3, IF d.tag = "Known" THEN ColourCode_fmt(d.v) ELSE "")

\* -- the pest-based implementation: the conversion of the parse tree
\* (parser/mod.rs) and the formatters (lib.rs, types.rs) --

\* i32::to_string and u32::to_string
Int_to_string(n) == IF n < 0 THEN "-" \o ToString(0 - n) ELSE ToString(n)

\* format!("{:0>w}", text): the text filled up on the left with '0' to width w
FillLeft(str, w) == PadLeft(str, w, "0")

\* the pair of Rule::temperatures with the texts of its two inner pairs
Temperatures(temp, dewp) == [tag |-> "temperatures", temp |-> temp, dewp |-> dewp]

\* the texts of a temperature or dewpoint pair
TemperatureTexts == {"//", "12", "M12"} \cup TempTokens

\* From<Pair> for Metar, Rule::temperatures: the value of one inner pair
Metar_from_temperature(v) ==
    IF v = "//" THEN Unknown
    ELSE IF At(v, 1) = "M" THEN Known(0 - ParseNat(From(v, 2)))
    ELSE Known(ParseNat(v))

\* From<Pair> for Metar, Rule::temperatures
Metar_from_temperatures(pair) ==
    [temperature |-> Metar_from_temperature(pair.temp),
     dewpoint |-> Metar_from_temperature(pair.dewp)]

\* impl Display for Metar of lib.rs: "{:0>2}/{:0>2}" of temperature and dewpoint
Metar_display_temperatures(m) ==
    FillLeft(to_opt_string(m.temperature, 2,
                 IF m.temperature.tag = "Known" THEN Int_to_string(m.temperature.v) ELSE ""), 2)
    \o "/"
    \o FillLeft(to_opt_string(m.dewpoint, 2,
                 IF m.dewpoint.tag = "Known" THEN Int_to_string(m.dewpoint.v) ELSE ""), 2)

\* the pair of Rule::wind with the texts of its inner pairs, gusts "" when
\* the group has no wind_gusts pair
WindPair(dir, speed, gusts, unit) ==
    [tag |-> "wind", dir |-> dir, speed |-> speed, gusts |-> gusts, unit |-> unit]
WindPair_text(pair) == pair.dir \o pair.speed \o pair.gusts \o pair.unit

WindDirTexts == {"///", "VRB", "020", "350"}
WindSpeedTexts == {"//", "05", "12", "P99", "100"}
WindGustTexts == {"", "G20", "G05"}
WindUnitTexts == {"KT", "KPH", "MPS"}
WindPairs ==
    {WindPair(q[1], q[2], q[3], q[4]) :
        q \in WindDirTexts \X WindSpeedTexts \X WindGustTexts \X WindUnitTexts}

\* From<Pair> for Wind, Rule::wind_dir
Wind_from_dir(v) ==
    IF v = "///" THEN Unknown
    ELSE IF v = "VRB" THEN Known([tag |-> "Variable"])
    ELSE Known([tag |-> "Heading", h |-> ParseNat(v)])

\* From<Pair> for Wind, Rule::wind_unit
Wind_from_unit(v) ==
    CASE v = "KT" -> "Knots"
      [] v = "KPH" -> "KilometresPerHour"
      [] v = "MPS" -> "MetresPerSecond"

\* From<Pair> for Wind: the inner pairs are taken in the order dir, speed,
\* gusts, unit, and a speed of "//" leaves the loop
Wind_from(pair) ==
    IF pair.speed = "//"
    THEN [dir |-> Wind_from_dir(pair.dir), speed |-> Unknown, unit |-> "Knots",
          varying |-> None, gusting |-> None]
    ELSE [dir |-> Wind_from_dir(pair.dir),
          speed |-> Known(ParseNat(IF At(pair.speed, 1) = "P" THEN From(pair.speed, 2)
                                   ELSE pair.speed)),
          unit |-> Wind_from_unit(pair.unit),
          varying |-> None,
          gusting |-> IF pair.gusts = "" THEN None ELSE Some(ParseNat(From(pair.gusts, 2)))]

\* impl Display for WindDirection of types.rs
WindDirection_display(d) == IF d.tag = "Variable" THEN "VRB" ELSE Pad(d.h, 3)

\* impl Display for Wind of types.rs
Wind_display(w) ==
    to_opt_string(w.dir, 3, IF w.dir.tag = "Known" THEN WindDirection_display(w.dir.v) ELSE "")
    \o (IF w.speed.tag = "Known" THEN FillLeft(Int_to_string(w.speed.v), 2) ELSE "//")
    \o (IF w.gusting.tag = "Some" THEN "G" \o Int_to_string(w.gusting.v) ELSE "")
    \o WindUnit_fmt(w.unit)
    \o (IF w.varying.tag = "Some"
        THEN " " \o Pad(w.varying.v[1], 3) \o "V" \o Pad(w.varying.v[2], 3)
        ELSE "")

Values ==
    {Value("VerticalVisibility", vv, 0) : vv \in VerticalVisibilities}
    \cup {Value("str", Str(str), 0) : str \in VerticalVisibilityTexts}
    \cup {Value("Data", d, n) : <<d, n>> \in DataValues \X (0..MaxWidth)}
    \cup {Value("ColourCode", Colour(d), 0) : d \in DataColourCodes}
    \cup {Value("ColourCodeText", Str(str), 0) : str \in ColourCodeTexts}
    \cup {Value("temperatures", Temperatures(q[1], q[2]), 0) :
              q \in TemperatureTexts \X TemperatureTexts}
    \cup {Value("wind", pair, 0) : pair \in WindPairs}

InitValue ==
    /\ given \in Values
    /\ trail = <<>>
    /\ groups = Blank
    /\ text = ""
    /\ pc = "value"
    /\ parsed = NoResult
    /\ rendered = ""
    /\ reparsed = NoResult
    /\ dropped = ""
    /\ shorter = ""
    /\ shortParsed = NoResult
    /\ memo = NoMemo

\* the function fn was applied and gave out
Applied(fn, out) ==
    /\ trail' = Append(trail, [fn |-> fn, out |-> out])
    /\ UNCHANGED <<given, report>>

\* vv.to_string()
VerticalVisibility_to_string ==
    /\ given.type = "VerticalVisibility"
    /\ trail = <<>>
    /\ Applied("to_string", VerticalVisibility_fmt(given.v))

\* VerticalVisibility::parse(&vv.to_string())
VerticalVisibility_parse_back ==
    /\ given.type = "VerticalVisibility"
    /\ Len(trail) = 1
    /\ Applied("parse", VerticalVisibility_parse(trail[1].out))

\* VerticalVisibility::parse(text)
VerticalVisibility_parse_text ==
    /\ given.type = "str"
    /\ trail = <<>>
    /\ Applied("parse", VerticalVisibility_parse(given.v.text))

\* data.unwrap()
Unwrap ==
    /\ given.type = "Data"
    /\ trail = <<>>
    /\ Applied("unwrap", Data_unwrap(given.v))

\* data.unwrap_mut()
UnwrapMut ==
    /\ given.type = "Data"
    /\ trail = <<>>
    /\ Applied("unwrap_mut", Data_unwrap_mut(given.v))

\* data.as_option()
AsOption ==
    /\ given.type = "Data"
    /\ trail = <<>>
    /\ Applied("as_option", Data_as_option(given.v))

\* data.into_option()
IntoOption ==
    /\ given.type = "Data"
    /\ trail = <<>>
    /\ Applied("into_option", Data_into_option(given.v))

\* data.to_opt_string(n)
ToOptString ==
    /\ given.type = "Data"
    /\ trail = <<>>
    /\ Applied("to_opt_string",
               to_opt_string(given.v, given.n,
                             IF given.v.tag = "Known" THEN ToString(given.v.v) ELSE ""))

\* colour.to_opt_string(3)
ColourCode_to_string ==
    /\ given.type = "ColourCode"
    /\ trail = <<>>
    /\ Applied("to_string", DataColourCode_fmt(given.v.data))

\* Data::<ColourCode>::parse(&colour.to_opt_string(3))
ColourCode_parse_back ==
    /\ given.type = "ColourCode"
    /\ Len(trail) = 1
    /\ Applied("parse", ColourCode_parse(trail[1].out))

\* Data::<ColourCode>::parse(text)
ColourCode_parse_text ==
    /\ given.type = "ColourCodeText"
    /\ trail = <<>>
    /\ Applied("parse", ColourCode_parse(given.v.text))

\* Rule::temperatures => ...
Temperatures_from ==
    /\ given.type = "temperatures"
    /\ trail = <<>>
    /\ Applied("from", Metar_from_temperatures(given.v))

\* the temperature/dewpoint group of metar.to_string()
Temperatures_display ==
    /\ given.type = "temperatures"
    /\ Len(trail) = 1
    /\ Applied("to_string", Metar_display_temperatures(trail[1].out))

\* Wind::from(pair)
WindFrom ==
    /\ given.type = "wind"
    /\ trail = <<>>
    /\ Applied("from", Wind_from(given.v))

\* wind.to_string()
WindDisplay ==
    /\ given.type = "wind"
    /\ Len(trail) = 1
    /\ Applied("to_string", Wind_display(trail[1].out))

NextValue ==
    \/ VerticalVisibility_to_string
    \/ VerticalVisibility_parse_back
    \/ VerticalVisibility_parse_text
    \/ Unwrap
    \/ UnwrapMut
    \/ AsOption
    \/ IntoOption
    \/ ToOptString
    \/ ColourCode_to_string
    \/ ColourCode_parse_back
    \/ ColourCode_parse_text
    \/ Temperatures_from
    \/ Temperatures_display
    \/ WindFrom
    \/ WindDisplay

ValueSpec == InitValue /\ [][NextValue]_vars

\* ------------------------------------------------------------------------
\* Metar::parser step by step: the members of its group run one after the
\* other, and a repetition that is a member reads one item per step
\* ------------------------------------------------------------------------
\* the members of group((...)) of Metar::parser, in order
Members == <<"tag", "early", "station", "time", "kind", "wind", "vis", "dirvis", "rvr",
             "atmos", "temp", "press", "recent", "colour", "shear", "rwycond", "sea",
             "trend", "civ", "remarks", "blanks", "term">>

\* the members that are item.separated_by(sep).allow_trailing().collect()
Repeated == {"dirvis", "rvr", "rwycond", "trend", "civ"}

\* the item of a repeated member
Item_parser(member, s, p) ==
    CASE member = "dirvis" -> DirectionalVisibility_parser(s, p)
      [] member = "rvr" -> RunwayVisualRange_parser(s, p)
      [] member = "rwycond" -> RunwayCondition_parser(s, p)
      [] member = "trend" -> Trend_parser(s, p)
      [] member = "civ" -> CloudsInVicinity_parser(s, p)

\* the separator of a repeated member
Separator_parser(member, s, p) ==
    IF member = "trend" THEN any_whitespace(s, p) ELSE some_whitespace(s, p)

\* a member that is not repeated
Member_parser(member, s, p) ==
    CASE member = "tag" -> TagGroup(s, p)
      [] member \in {"early", "kind"} -> method(s, p)
      [] member = "station" -> ThenWs(station(s, p), s)
      [] member = "time" -> ThenWs(Time_parser(s, p), s)
      [] member = "wind" -> WindGroup(s, p)
      [] member = "vis" -> VisibilityGroup(s, p)
      [] member = "atmos" -> AtmosGroup(s, p)
      [] member = "temp" -> TemperatureGroup(s, p)
      [] member = "press" -> PressureGroup(s, p)
      [] member = "recent" -> RecentGroup(s, p)
      [] member = "colour" -> ColourGroup(s, p)
      [] member = "shear" -> WindshearGroup(s, p)
      [] member = "sea" -> SeaGroup(s, p)
      [] member = "remarks" -> Remarks_parser(s, p)
      [] member = "blanks" -> any_whitespace(s, p)
      [] member = "term" -> TerminatorGroup(s, p)

\* none_of("="): one character of the remarks
RemarkChar_parser(s, p) ==
    IF p <= Len(s) /\ At(s, p) # "=" THEN Ok(p + 1, At(s, p), 0) ELSE Fail(p)

\* the reports that are read step by step
ScanInputs == Singles \cup ErrorInputs

\* the member that is to run next (Len(Members) + 1 after the last one)
Scan(k) == [type |-> "Metar", v |-> Unit, n |-> k]

\* the position the parser is at: where the last step ended
Here == IF trail = <<>> THEN 1 ELSE trail[Len(trail)].out

\* was the last step an item of the member that is running
Inside == trail # <<>> /\ trail[Len(trail)].fn = Members[given.n]

scanned == <<groups, text, parsed, rendered, reparsed, dropped, shorter, shortParsed, memo>>

\* The parsers are functions of the text and the position alone, so what
\* each of them makes of the text at each position is worked out once and
\* looked up by the steps.
Outcome(r) == [ok |-> r.ok, pos |-> r.pos]
Memo(s) ==
    [member \in {Members[k] : k \in DOMAIN Members} |->
        [p \in 1..(Len(s) + 1) |->
            [run |-> Outcome(IF member \in Repeated THEN Item_parser(member, s, p)
                             ELSE Member_parser(member, s, p)),
             sep |-> Outcome(IF member \in Repeated THEN Separator_parser(member, s, p)
                             ELSE NoSep(s, p))]]]

InitScan ==
    /\ groups \in ScanInputs
    /\ text = Compose(groups)
    /\ pc = "scan"
    /\ given = Scan(1)
    /\ trail = <<>>
    /\ memo = Memo(text)
    /\ parsed = NoResult
    /\ rendered = ""
    /\ reparsed = NoResult
    /\ dropped = ""
    /\ shorter = ""
    /\ shortParsed = NoResult

\* a member that is not repeated runs at the position reached; when it does
\* not match, the group and with it the parser gives up
RunMember ==
    /\ pc = "scan"
    /\ given.n <= Len(Members)
    /\ Members[given.n] \notin Repeated
    /\ IF memo[Members[given.n]][Here].run.ok
       THEN /\ trail' = Append(trail, [fn  |-> Members[given.n],
                                       out |-> memo[Members[given.n]][Here].run.pos])
            /\ given' = Scan(given.n + 1)
            /\ pc' = pc
       ELSE /\ pc' = "rejected"
            /\ UNCHANGED <<given, trail>>
    /\ UNCHANGED scanned

\* the position at which the next item of the repeated member is looked
\* for: after the separator when an item was read before (0: no separator)
ItemStart ==
    IF ~Inside THEN Here
    ELSE IF memo[Members[given.n]][Here].sep.ok
         THEN memo[Members[given.n]][Here].sep.pos
         ELSE 0

\* one more item of a repeated member
ReadItem ==
    /\ pc = "scan"
    /\ given.n <= Len(Members)
    /\ Members[given.n] \in Repeated
    /\ ItemStart # 0
    /\ memo[Members[given.n]][ItemStart].run.ok
    /\ trail' = Append(trail, [fn  |-> Members[given.n],
                               out |-> memo[Members[given.n]][ItemStart].run.pos])
    /\ UNCHANGED <<given, pc, scanned>>

\* no further item: the repetition ends, keeping a trailing separator
EndItems ==
    /\ pc = "scan"
    /\ given.n <= Len(Members)
    /\ Members[given.n] \in Repeated
    /\ IF ItemStart = 0 THEN TRUE ELSE ~memo[Members[given.n]][ItemStart].run.ok
    /\ trail' = Append(trail, [fn  |-> "end",
                               out |-> IF ItemStart = 0 THEN Here ELSE ItemStart])
    /\ given' = Scan(given.n + 1)
    /\ UNCHANGED <<pc, scanned>>

\* Parsable::parse: the text is accepted when the group matched all of it
EndOfInput ==
    /\ pc = "scan"
    /\ given.n = Len(Members) + 1
    /\ pc' = IF Here = Len(text) + 1 THEN "accepted" ELSE "rejected"
    /\ UNCHANGED <<given, trail, scanned>>

NextScan ==
    \/ RunMember
    \/ ReadItem
    \/ EndItems
    \/ EndOfInput

\* the parser runs on one thread and is never suspended: a step that can be
\* taken is taken
ScanSpec == InitScan /\ [][NextScan]_vars /\ WF_vars(NextScan)

\* ------------------------------------------------------------------------
\* Properties
\* ------------------------------------------------------------------------
decoded == pc # "start" /\ parsed.ok
encoded == pc \in {"rendered", "reparsed"}

\* does the text str hold the character c
RECURSIVE Contains(_, _)
Contains(str, c) == IF Len(str) = 0 THEN FALSE
                    ELSE At(str, 1) = c \/ Contains(Tail(str), c)

\* the token of str that starts at position p
RECURSIVE TokenAt(_, _)
TokenAt(str, p) == IF p > Len(str) \/ At(str, p) = " " THEN ""
                   ELSE At(str, p) \o TokenAt(str, p + 1)

\* C1 (as claimed): a canonical report that is accepted is rendered back
\* character for character, except that SKC and CLR are rendered as NCD.
Canonical(g) == g.tag = "" /\ g.early = "" /\ g.term = ""
FoldNoCloud(g) == [g EXCEPT !.clouds = IF @ \in {"SKC", "CLR"} THEN "NCD" ELSE @]
Cex_C1_RoundTrip ==
    (encoded /\ Canonical(groups)) => rendered = Compose(FoldNoCloud(groups))

\* C2 (as claimed): the rendered text of an accepted report is accepted and
\* decodes to the same record.
Cex_C2_Idempotence ==
    pc = "reparsed" => (reparsed.ok /\ reparsed.rec = parsed.rec)

\* C3 (as claimed): every masked field is rendered as a run of "/" of the
\* width of its slot: 4 visibility and directional visibility, 4 RVR value,
\* 1 RVR trend, 2 weather list, 2 temperature and dewpoint, 2 recent-weather
\* block, 3 colour code, 3 each heading of a varying pair.
MaskedWidths(m) ==
    /\ m.visibility = Unknown => Fmt_visibility(m) = "//// "
    /\ \A i \in DOMAIN m.reduced_directional_visibility :
          LET dv == m.reduced_directional_visibility[i]
          IN  dv.vis = Unknown =>
                 DirectionalVisibility_fmt(dv)
                    = (IF dv.dir.tag = "Some" THEN dv.dir.v ELSE "") \o "//// "
    /\ \A i \in DOMAIN m.rvr :
          LET r    == m.rvr[i]
              head == "R" \o r.runway \o "/"
          IN  /\ r.value = Unknown =>
                    Slice(RunwayVisualRange_fmt(r), 1, Len(head) + 4) = head \o "////"
              /\ r.trend = Unknown =>
                    LET settled == RunwayVisualRange_fmt([r EXCEPT !.trend = Known("None")])
                    IN  RunwayVisualRange_fmt(r)
                           = SubSeq(settled, 1, Len(settled) - 1) \o "/"
    /\ m.weather = Unknown => Fmt_weather(m) = "// "
    /\ m.temperature = Unknown => Slice(Fmt_temperature(m), 1, 3) = "///"
    /\ m.dewpoint = Unknown =>
          Slice(Fmt_temperature(m), Len(Fmt_temperature(m)) - 2, 3) = "///"
    /\ \A i \in DOMAIN m.recent_weather :
          m.recent_weather[i] = Unknown => RecentBlock_fmt(m.recent_weather[i]) = " RE//"
    /\ m.colour_code = Some(Unknown) => Fmt_colour_code(m) = " ///"
    /\ (m.wind.tag = "Present" /\ m.wind.varying.tag = "Some") =>
          /\ m.wind.varying.v[1] = Unknown =>
                Slice(Wind_fmt(m.wind), Len(Wind_fmt(m.wind)) - 6, 3) = "///"
          /\ m.wind.varying.v[2] = Unknown =>
                Slice(Wind_fmt(m.wind), Len(Wind_fmt(m.wind)) - 2, 3) = "///"
Cex_C3_MaskedWidth == encoded => MaskedWidths(parsed.rec)

\* the temperature/dewpoint group as it stands in the rendered text
RenderedTemperatureGroup ==
    LET m == parsed.rec
        before == Fmt_head(m) \o Fmt_wind(m) \o Fmt_visibility(m) \o Fmt_directional(m)
                  \o Fmt_rvr(m) \o Fmt_weather(m) \o Fmt_vert_visibility(m)
                  \o Fmt_clouds(m) \o Fmt_cloud_layers(m)
    IN  TokenAt(rendered, Len(before) + 1)

BelowZero(t) == t.tag = "Known" /\ t.v.neg /\ t.v.mag > 0

\* the part of the text str before / after its first "/"
RECURSIVE BeforeSlash(_)
BeforeSlash(str) == IF Len(str) = 0 \/ At(str, 1) = "/" THEN ""
                    ELSE At(str, 1) \o BeforeSlash(Tail(str))
RECURSIVE AfterLastSlash(_)
AfterLastSlash(str) == IF Len(str) = 0 \/ At(str, Len(str)) = "/" THEN ""
                       ELSE AfterLastSlash(SubSeq(str, 1, Len(str) - 1)) \o At(str, Len(str))

\* C4: a temperature or dewpoint that is known and below zero is rendered as
\* "M" and its two-digit magnitude, and the rendered temperature/dewpoint
\* group never holds a "-".
Thm_C4_SignInvariant ==
    encoded =>
        LET m == parsed.rec
            g == RenderedTemperatureGroup
        IN  /\ BelowZero(m.temperature) => BeforeSlash(g) = "M" \o Pad(m.temperature.v.mag, 2)
            /\ BelowZero(m.dewpoint) => AfterLastSlash(g) = "M" \o Pad(m.dewpoint.v.mag, 2)
            /\ Contains(g, "/")
            /\ ~Contains(g, "-")
Wit_C4_SignInvariant ==
    encoded /\ BelowZero(parsed.rec.temperature) /\ BelowZero(parsed.rec.dewpoint)

\* C5 (as claimed): a maskable field of the record is Unknown only when the
\* text holds the placeholder run at that field's slot, so a report without
\* the group does not get the value of a report that masks it.
Cex_C5_UnknownOnlyFromPlaceholder ==
    decoded =>
        LET m == parsed.rec
        IN  /\ m.visibility = Unknown => groups.vis = "////"
            /\ m.temperature = Unknown => Slice(groups.temp, 1, 2) = "//"
            /\ m.dewpoint = Unknown => Slice(groups.temp, Len(groups.temp) - 1, 2) = "//"
            /\ m.pressure.v = Unknown => Slice(groups.press, 2, 4) = "////"
            /\ (m.wind.tag = "Present" /\ m.wind.dir = Heading(Unknown)) =>
                  Slice(groups.wind, 1, 3) = "///"
            /\ (m.wind.tag = "Present" /\ m.wind.speed.speed = Unknown) =>
                  Slice(groups.wind, 4, 2) = "//"

\* C6 (as claimed): nothing is rendered for a group that is absent from the
\* report.
Cex_C6_AbsentGroupsOmitted ==
    encoded =>
        LET m == parsed.rec
        IN  /\ groups.wind = "" => Fmt_wind(m) = ""
            /\ groups.vis = "" => Fmt_visibility(m) = ""
            /\ groups.temp = "" => Fmt_temperature(m) = ""
            /\ groups.press = "" => Fmt_pressure(m) = ""
            /\ groups.wx = "" => Fmt_weather(m) = ""
            /\ groups.vv = "" => Fmt_vert_visibility(m) = ""
            /\ groups.clouds = "" => Fmt_clouds(m) = ""
            /\ groups.layers = "" => Fmt_cloud_layers(m) = ""
            /\ groups.rvr = "" => Fmt_rvr(m) = ""
            /\ groups.recent = "" => Fmt_recent_weather(m) = ""
            /\ groups.colour = "" => Fmt_colour_code(m) = ""
            /\ groups.trend = "" => Fmt_trends(m) = ""
            /\ groups.remarks = "" => Fmt_remarks(m) = ""

\* the fields of the record that belong to a group with a fallback
FieldsOf(g) == CASE g = "wind" -> {"wind"}
                 [] g = "vis" -> {"visibility"}
                 [] g = "temp" -> {"temperature", "dewpoint"}
                 [] g = "press" -> {"pressure"}

\* C7 (as claimed): an accepted report is still accepted without its wind,
\* visibility, temperature/dewpoint or pressure group, and every field of
\* the other groups keeps its value.
Cex_C7_MissingGroupNeverBlocks ==
    (pc = "dropped" /\ parsed.ok) =>
        /\ shortParsed.ok
        /\ \A f \in (DOMAIN parsed.rec) \ FieldsOf(dropped) :
              shortParsed.rec[f] = parsed.rec[f]

\* the kind a marker stands for
MarkerKind(tok) == CASE tok = "" -> "Normal"
                     [] tok = "AUTO" -> "Automatic"
                     [] tok \in {"COR", "CCA"} -> "Correction"

\* C8: the kind is that of the marker before the station code when there is
\* one, otherwise that of the marker after the time group, otherwise Normal;
\* with both markers the early one is the result and the late one is consumed.
Thm_C8_KindResolution ==
    decoded =>
        /\ parsed.rec.kind = IF groups.early # "" THEN MarkerKind(groups.early)
                             ELSE MarkerKind(groups.kind)
        /\ (groups.early # "" /\ groups.kind # "") =>
              LET late == method(text, SlotPos(groups, "kind"))
              IN  late.ok /\ late.pos >= SlotPos(groups, "kind") + Len(groups.kind)
Wit_C8_KindResolution ==
    decoded /\ groups.early = "COR" /\ groups.kind = "AUTO" /\ parsed.rec.kind = "Correction"

FullyMaskedReport == "ETSB 032220Z AUTO /////KT //// // ////// ///// Q//// ///"

\* C9: the fully masked report is accepted, every masked slot is Unknown in
\* the record (the cloud layer has unknown density and height), and the
\* rendered text is the report.
Thm_C9_FullyMasked ==
    (text = FullyMaskedReport /\ pc # "start") =>
        /\ parsed.ok
        /\ parsed.rec.wind = WindPresent(Heading(Unknown), WindSpeed("Knots", Unknown, None), None)
        /\ parsed.rec.visibility = Unknown
        /\ parsed.rec.weather = Unknown
        /\ Len(parsed.rec.cloud_layers) = 1
        /\ parsed.rec.cloud_layers[1].density = Unknown
        /\ parsed.rec.cloud_layers[1].height = Unknown
        /\ parsed.rec.temperature = Unknown
        /\ parsed.rec.dewpoint = Unknown
        /\ parsed.rec.pressure = [tag |-> "Hectopascals", v |-> Unknown]
        /\ parsed.rec.colour_code = Some(Unknown)
        /\ encoded => rendered = FullyMaskedReport
Wit_C9_FullyMasked ==
    text = FullyMaskedReport /\ groups = FullyMasked /\ pc = "rendered"
        /\ rendered = FullyMaskedReport

Outcomes ==
    (IF pc # "start" THEN {<<text, parsed>>} ELSE {})
    \cup (IF pc = "reparsed" THEN {<<rendered, reparsed>>} ELSE {})
    \cup (IF pc = "dropped" THEN {<<shorter, shortParsed>>} ELSE {})

Cex_C12_NoAbnormalTermination == \A o \in Outcomes : o[2] # Aborted

\* C13 (as claimed): a report with NCD, SKC or CLR, alone or after weather or
\* a vertical visibility, is accepted, its cloud state is NoCloudDetected, it
\* decodes to the record of the same report with any other of the three
\* spellings, and it is rendered with NCD.
Cex_C13_NoCloudFolding ==
    (pc # "start" /\ groups \in NoCloudInputs) =>
        /\ parsed.ok
        /\ parsed.rec.clouds = "NoCloudDetected"
        /\ \A c \in NoCloudTokens :
              Metar_parse(Compose([groups EXCEPT !.clouds = c])) = parsed
        /\ encoded => Fmt_clouds(parsed.rec) = "NCD "

\* the wind groups with a varying pair of known headings, and the headings
VaryingWinds == {[wind |-> "27010KT 240V300", from |-> 240, to |-> 300],
                 [wind |-> "35010KT 350V020", from |-> 350, to |-> 20]}

Cex_C15_SmallerFirst ==
    (decoded /\ parsed.rec.wind.tag = "Present" /\ parsed.rec.wind.varying.tag = "Some"
        /\ parsed.rec.wind.varying.v[1].tag = "Known"
        /\ parsed.rec.wind.varying.v[2].tag = "Known") =>
        parsed.rec.wind.varying.v[1].v <= parsed.rec.wind.varying.v[2].v

\* C16 (as claimed): a report with visibility CAVOK and no cloud token after
\* it decodes to the cloud state NoCloudDetected.
Cex_C16_CavokNoCloud ==
    (decoded /\ groups.vis = "CAVOK" /\ groups.wx = "" /\ groups.vv = ""
        /\ groups.clouds = "" /\ groups.layers = "") =>
        parsed.rec.clouds = "NoCloudDetected"

\* C17 (as claimed): the runway visual ranges of an accepted report are
\* rendered as they were written.
Cex_C17_RvrRoundTrip ==
    (encoded /\ groups.rvr # "") => Fmt_rvr(parsed.rec) = groups.rvr \o " "

\* the reading a token of RvrReadings stands for
RvrReading(tok) == CASE tok = "0800" -> [tag |-> "Exactly", n |-> 800]
                     [] tok = "P1500" -> [tag |-> "GreaterThan", n |-> 1500]
                     [] tok = "M0050" -> [tag |-> "LessThan", n |-> 50]

\* the entry RvrToken(v, u, tr) stands for
RvrDecoded(v, u, tr) ==
    [runway |-> "24L",
     value  |-> Known(IF Len(v) = 1
                      THEN [tag |-> "Single", a |-> RvrReading(v[1])]
                      ELSE [tag |-> "Between", a |-> RvrReading(v[1]), b |-> RvrReading(v[2])]),
     unit   |-> IF u = "FT" THEN "Feet" ELSE "Metres",
     trend  |-> Known(CASE tr = "U" -> "Upwards" [] tr = "D" -> "Downwards"
                        [] tr \in {"N", ""} -> "None")]

\* C18: a runway visual range decodes to its runway, to Single of one
\* reading or Between of two (a third reading is not accepted), each reading
\* GreaterThan after "P", LessThan after "M" and Exactly otherwise, to Feet
\* exactly when "FT" follows the value, and to the trend of its letter, which
\* is Known(None) for "N" and for no letter.
Thm_C18_RvrDecoding ==
    /\ \A v \in RvrValues, u \in RvrUnits, tr \in RvrTrends :
          (pc # "start" /\ groups = [Typical EXCEPT !.rvr = RvrToken(v, u, tr)]) =>
              /\ parsed.ok
              /\ parsed.rec.rvr = <<RvrDecoded(v, u, tr)>>
    /\ (pc # "start" /\ groups.rvr = "R26/0800V1000V1200") => ~parsed.ok
Wit_C18_RvrDecoding ==
    /\ decoded /\ groups.rvr = "R24L/P1500VM0050FTD"
    /\ parsed.rec.rvr[1].value.v.tag = "Between"
    /\ parsed.rec.rvr[1].unit = "Feet"

\* what VerticalVisibility::parse is to make of the texts tried
VerticalVisibilityOf(str) ==
    CASE str = "VV///" -> Some(ReducedByUnknownAmount)
      [] str = "VV350" -> Some(Distance(350))
      [] str = "VV000" -> Some(Distance(0))
      [] str = "VV999" -> Some(Distance(999))
      [] OTHER -> None

\* C19: VerticalVisibility::parse makes ReducedByUnknownAmount of "VV///"
\* and Distance(n) of "VV" and exactly three digits, and nothing of another
\* text; Display writes "VV///" and "VV" with the distance in three digits,
\* and parsing what Display wrote gives the value back, for
\* ReducedByUnknownAmount and every distance 0..999.
Thm_C19_VerticalVisibility ==
    /\ (given.type = "str" /\ Len(trail) >= 1) =>
          IF VerticalVisibilityOf(given.v.text) = None THEN ~trail[1].out.ok
          ELSE trail[1].out.ok /\ Some(trail[1].out.rec) = VerticalVisibilityOf(given.v.text)
    /\ (given.type = "VerticalVisibility" /\ Len(trail) >= 1) =>
          /\ Len(trail[1].out) = 5
          /\ Slice(trail[1].out, 1, 2) = "VV"
          /\ IF given.v = ReducedByUnknownAmount THEN Slice(trail[1].out, 3, 3) = "///"
             ELSE /\ \A i \in 3..5 : At(trail[1].out, i) \in DigitChars
                  /\ ParseNat(Slice(trail[1].out, 3, 3)) = given.v.d
    /\ (given.type = "VerticalVisibility" /\ Len(trail) >= 2) =>
          trail[2].out.ok /\ trail[2].out.rec = given.v
Wit_C19_VerticalVisibility ==
    /\ given = Value("VerticalVisibility", Distance(7), 0)
    /\ Len(trail) = 2
    /\ trail[1].out = "VV007"
    /\ trail[2].out.rec = Distance(7)

\* C20: unwrap and unwrap_mut give the inner value of Known and panic for
\* Unknown; as_option and into_option give Some of the inner value of Known
\* and None for Unknown and do not panic; to_opt_string(n) gives n times "/"
\* for Unknown and the rendering of the inner value for Known.
Thm_C20_DataAccessors ==
    (given.type = "Data" /\ Len(trail) >= 1) =>
        LET d   == given.v
            fn  == trail[1].fn
            out == trail[1].out
        IN  /\ fn \in {"unwrap", "unwrap_mut"} =>
                  /\ d.tag = "Known" => out = d.v
                  /\ d = Unknown => out = Panic
            /\ fn \in {"as_option", "into_option"} =>
                  /\ out # Panic
                  /\ d.tag = "Known" => out = Some(d.v)
                  /\ d = Unknown => out = None
            /\ fn = "to_opt_string" =>
                  /\ d.tag = "Known" => out = ToString(d.v)
                  /\ d = Unknown =>
                        Len(out) = given.n /\ \A i \in 1..given.n : At(out, i) = "/"
Wit_C20_DataAccessors ==
    /\ given = Value("Data", Unknown, 3)
    /\ Len(trail) = 1
    /\ trail[1] = [fn |-> "unwrap", out |-> Panic]

\* the positions of the text, its end included
Positions == 1..(Len(text) + 1)

\* the items of the repetitions of the grammar: directional visibilities,
\* RVR entries, runway conditions, trends, clouds in vicinity, weather
\* phenomena and their condition codes, cloud layers, recent-weather blocks,
\* RVR readings, the directions of clouds in vicinity, remark characters
ItemAt(k, s, p) ==
    CASE k = 1 -> DirectionalVisibility_parser(s, p)
      [] k = 2 -> RunwayVisualRange_parser(s, p)
      [] k = 3 -> RunwayCondition_parser(s, p)
      [] k = 4 -> Trend_parser(s, p)
      [] k = 5 -> CloudsInVicinity_parser(s, p)
      [] k = 6 -> Weather_parser(s, p)
      [] k = 7 -> WeatherCondition_parser(s, p)
      [] k = 8 -> CloudLayer_parser(s, p)
      [] k = 9 -> RecentBlock_parser(s, p)
      [] k = 10 -> RvrValueInner_parser(s, p)
      [] k = 11 -> SlashDirection_parser(s, p)
      [] k = 12 -> RemarkChar_parser(s, p)
ItemKinds == 1..12

\* an item that matches takes at least one character
ItemsConsume ==
    (pc = "scan" /\ trail = <<>>) =>
        \A k \in ItemKinds, p \in Positions :
            ItemAt(k, text, p).ok => ItemAt(k, text, p).pos > p

\* every item read by a repeated member ended behind the step before it, and
\* no step went backwards
StepsAdvance ==
    \A i \in DOMAIN trail :
        /\ trail[i].out >= (IF i = 1 THEN 1 ELSE trail[i - 1].out)
        /\ trail[i].fn \in Repeated => trail[i].out > (IF i = 1 THEN 1 ELSE trail[i - 1].out)

\* the steps that ended at one position are at most one per member and one
\* per end of a repetition
StepsPerPosition ==
    \A q \in Positions :
        Cardinality({i \in DOMAIN trail : trail[i].out = q}) <= Len(Members) + Cardinality(Repeated)

\* the steps lead to the outcome of Metar::parser on the whole text
ScanAgrees ==
    pc \in {"accepted", "rejected"} =>
        (pc = "accepted") = Parsable_parse(text, Metar_parser(text, 1)).ok

\* C21: Metar::parse comes to an end on every report; every item of a
\* repetition takes at least one character, and the steps taken at one
\* position of the text are bounded by the number of members of the grammar.
Thm_C21_Termination ==
    /\ [](ItemsConsume /\ StepsAdvance /\ StepsPerPosition /\ ScanAgrees)
    /\ <>(pc \in {"accepted", "rejected"})
Wit_C21_Termination ==
    /\ pc = "accepted"
    /\ groups = Wintry
    /\ Cardinality({i \in DOMAIN trail : trail[i].fn = "rvr"}) = 2

\* the first position from p on at which the text sub stands in str, 0 when
\* it does not
RECURSIVE IndexOf(_, _, _)
IndexOf(str, sub, p) ==
    IF p + Len(sub) - 1 > Len(str) THEN 0
    ELSE IF Slice(str, p, Len(sub)) = sub THEN p
    ELSE IndexOf(str, sub, p + 1)

\* C22 (as claimed): the windshear warning, the runway conditions, the sea
\* condition and the clouds in vicinity of an accepted report are written in
\* the rendered text, after the pressure group.
Cex_C22_TailGroupsRendered ==
    encoded =>
        \A f \in {"shear", "rwycond", "sea", "civ"} :
            groups[f] # "" =>
                IndexOf(rendered, groups[f], 1) > IndexOf(rendered, Pressure_fmt(parsed.rec.pressure), 1)

\* C23 (as claimed): the rendered text has no blank at its start or at its
\* end and no two blanks in a row before the body of the remarks.
Cex_C23_SingleSpaces ==
    encoded =>
        LET body == IF parsed.rec.remarks.tag = "Some" THEN Len(parsed.rec.remarks.v) ELSE 0
        IN  /\ At(rendered, 1) # " "
            /\ At(rendered, Len(rendered)) # " "
            /\ IndexOf(SubSeq(rendered, 1, Len(rendered) - body), "  ", 1) = 0

\* the elements of recent_weather a token of RecentTokens stands for
RecentDecoded(tok) ==
    CASE tok = "RERA" -> <<Known(<<"Rain">>)>>
      [] tok = "RESHUP RESN" -> <<Known(<<"Showers", "UnknownPrecipitation">>), Known(<<"Snow">>)>>
      [] tok = "RETSRA RESN REFG" ->
            <<Known(<<"Thunderstorm", "Rain">>), Known(<<"Snow">>), Known(<<"Fog">>)>>

\* C24: every "RE" block after the pressure group is one element of
\* recent_weather, in the order of the text, with the codes of the block in
\* their order; a block has at least one code; Display writes " RE" and the
\* codes of every element, in order and before the colour code, so the
\* report is rendered as it was written.
Thm_C24_RecentWeather ==
    (pc # "start" /\ groups \in RecentInputs) =>
        IF groups.recent = "RE" THEN ~parsed.ok
        ELSE /\ parsed.ok
             /\ parsed.rec.recent_weather = RecentDecoded(groups.recent)
             /\ encoded =>
                   /\ Fmt_recent_weather(parsed.rec) = " " \o groups.recent
                   /\ rendered = text
Wit_C24_RecentWeather ==
    /\ encoded
    /\ text = "EDDM 222020Z AUTO VRB01KT 9999 20/13 Q1017 RESHUP RESN BLU"
    /\ Len(parsed.rec.recent_weather) = 2
    /\ rendered = text

\* the temperature a token stands for: "M" and two digits, or two digits
TempOf(tok) == IF At(tok, 1) = "M" THEN Temp(TRUE, ParseNat(Slice(tok, 2, 2)))
               ELSE Temp(FALSE, ParseNat(tok))

\* C25: "M00" decodes to a zero with the negative sign and is rendered as
\* "M00", "00" to a zero without it and is rendered as "00": a
\* temperature/dewpoint group of any two signs and magnitudes is accepted,
\* and in an accepted report it is rendered as it was written.
Thm_C25_SignOfZero ==
    \A a \in TempTokens, b \in TempTokens :
        /\ (pc # "start" /\ groups = [Typical EXCEPT !.temp = a \o "/" \o b]) => parsed.ok
        /\ (pc # "start" /\ groups.temp = a \o "/" \o b /\ parsed.ok) =>
              /\ parsed.rec.temperature = Known(TempOf(a))
              /\ parsed.rec.dewpoint = Known(TempOf(b))
              /\ encoded => Fmt_temperature(parsed.rec) = groups.temp
Wit_C25_SignOfZero ==
    /\ encoded
    /\ groups = [Typical EXCEPT !.temp = "M00/00"]
    /\ parsed.rec.temperature = Known(Temp(TRUE, 0))
    /\ parsed.rec.dewpoint = Known(Temp(FALSE, 0))
    /\ Fmt_temperature(parsed.rec) = "M00/00"

\* C27 (as claimed): the cloud state of a decoded report is CloudLayers
\* exactly when the report has cloud layers.
Cex_C27_CloudStateAgrees ==
    decoded => ((parsed.rec.clouds = "CloudLayers") <=> (parsed.rec.cloud_layers # <<>>))

\* the text of str between position p and the first "=" from there on
RemarksBody(str, p) == Slice(str, p, NotTerminatorRun(str, p))

\* is str made of blanks only
RECURSIVE AllBlanks(_)
AllBlanks(str) == Len(str) = 0 \/ (At(str, 1) = " " /\ AllBlanks(Tail(str)))

\* is v the text body without the blanks at its two ends
Trimmed(v, body) ==
    /\ At(v, 1) # " "
    /\ At(v, Len(v)) # " "
    /\ \E i \in 0..(Len(body) - Len(v)) :
          /\ Slice(body, i + 1, Len(v)) = v
          /\ AllBlanks(Slice(body, 1, i))
          /\ AllBlanks(From(body, i + Len(v) + 1))

\* C28: the remarks of a decoded report are None when the report has no
\* "RMK"; otherwise they are the text between "RMK" and the first "=" or the
\* end of the report without the blanks at its two ends, they hold no "=",
\* and Display writes " RMK " and that text.
Thm_C28_Remarks ==
    decoded =>
        IF IndexOf(text, "RMK", 1) = 0 THEN parsed.rec.remarks = None
        ELSE /\ parsed.rec.remarks.tag = "Some"
             /\ Trimmed(parsed.rec.remarks.v, RemarksBody(text, IndexOf(text, "RMK", 1) + 3))
             /\ ~Contains(parsed.rec.remarks.v, "=")
             /\ Fmt_remarks(parsed.rec) = " RMK " \o parsed.rec.remarks.v
             /\ encoded => Slice(rendered, Len(rendered) - Len(Fmt_remarks(parsed.rec)) + 1,
                                 Len(Fmt_remarks(parsed.rec))) = Fmt_remarks(parsed.rec)
Wit_C28_Remarks ==
    /\ encoded
    /\ text = "EDDM 222020Z AUTO VRB01KT 9999 20/13 Q1017 RMK  A  B  ="
    /\ parsed.rec.remarks = Some("A  B")

\* what Data::<ColourCode>::parse is to make of the texts tried
ColourCodeOf(str) ==
    CASE str = "BLU+" -> Some(Known("BluePlus"))
      [] str = "BLU" -> Some(Known("Blue"))
      [] str = "RED" -> Some(Known("Red"))
      [] str = "///" -> Some(Unknown)
      [] OTHER -> None

\* C26: the parser of a colour code takes "BLU+" as BluePlus, all four
\* characters of it and never Blue with a "+" left over, "BLU" as Blue and
\* "///" as Unknown; parsing what is written for a code or for Unknown gives
\* the value back.
Thm_C26_ColourCode ==
    /\ (given.type = "ColourCodeText" /\ Len(trail) >= 1) =>
          /\ IF ColourCodeOf(given.v.text) = None THEN ~trail[1].out.ok
             ELSE trail[1].out.ok /\ Some(trail[1].out.rec) = ColourCodeOf(given.v.text)
          /\ given.v.text = "BLU+" => ColourCode_parser(given.v.text, 1).pos = 5
    /\ (given.type = "ColourCode" /\ Len(trail) >= 1) =>
          trail[1].out = IF given.v.data = Unknown THEN "///" ELSE ColourCode_fmt(given.v.data.v)
    /\ (given.type = "ColourCode" /\ Len(trail) >= 2) =>
          trail[2].out.ok /\ trail[2].out.rec = given.v.data
Wit_C26_ColourCode ==
    /\ given = Value("ColourCode", Colour(Known("BluePlus")), 0)
    /\ Len(trail) = 2
    /\ trail[1].out = "BLU+"
    /\ trail[2].out.rec = Known("BluePlus")

\* C29 (as claimed): in the pest-based implementation a temperature or
\* dewpoint text "Mdd" converts to Known(-dd), the group is written back as
\* it was read, and what is written never holds a '-'.
Cex_C29_PestSign ==
    /\ (given.type = "temperatures" /\ Len(trail) >= 1) =>
          /\ (At(given.v.temp, 1) = "M") =>
                trail[1].out.temperature = Known(0 - ParseNat(From(given.v.temp, 2)))
          /\ (At(given.v.dewp, 1) = "M") =>
                trail[1].out.dewpoint = Known(0 - ParseNat(From(given.v.dewp, 2)))
    /\ (given.type = "temperatures" /\ Len(trail) >= 2) =>
          /\ trail[2].out = given.v.temp \o "/" \o given.v.dewp
          /\ IndexOf(trail[2].out, "-", 1) = 0

\* C30 (as claimed): in the pest-based implementation a wind group converted
\* by Wind::from and written by Display for Wind is the group again; the unit
\* and the gust after a masked speed are kept in the record, and a gust is
\* written with two digits.
Cex_C30_PestWindRoundTrip ==
    /\ (given.type = "wind" /\ Len(trail) >= 1) =>
          /\ trail[1].out.unit = Wind_from_unit(given.v.unit)
          /\ (given.v.gusts # "") => trail[1].out.gusting = Some(ParseNat(From(given.v.gusts, 2)))
    /\ (given.type = "wind" /\ Len(trail) >= 2) =>
          trail[2].out = WindPair_text(given.v)

====
